---- MODULE Spec2Model ----
(***************************************************************************)
(* Model of the message-send pipeline of the VocalBridge gateway:          *)
(* ConversationService.sendMessage, the idempotency repository, the retry  *)
(* and fallback provider caller, the vendor adapters and the store tables  *)
(* they write.  Every `await` of the source is one atomic step of a send;  *)
(* sends of different requests interleave at these steps.                  *)
(*                                                                         *)
(* Wall-clock time is the logical clock Now, which advances with every     *)
(* message stored.  Attempt latencies (differences of Date values) and the *)
(* createdAt columns of tables other than messages are not modelled.       *)
(*                                                                         *)
(* Spec runs the gateway with the vendor mocks of the repository,          *)
(* RetrySpec and RetryLiveSpec run one send against vendors that can fail  *)
(* in every way, NoRetrySpec does so with a policy of one attempt per      *)
(* vendor, StoreFaultSpec runs one send against a store whose writes can   *)
(* fail, and PricingSpec and BackoffSpec call calculateCost and            *)
(* calculateBackoff directly.                                              *)
(***************************************************************************)
EXTENDS Integers, Sequences, FiniteSets, TLC

\* ------------------------------------------------------------------ bounds
\* number of HTTP requests (sends) in a run
NumRequests == 3
\* number of requests whose arguments are chosen freely; the requests after
\* them are client retries: they repeat the arguments of an earlier request
\* and are sent once the earlier requests have been answered
NumFresh == 2
\* number of sends in flight at the same time
MaxInFlight == 2
\* number of sends of a run whose vendor calls may fail
MaxFailingSends == 1
\* number of mock response templates the vendors choose from
MaxTemplate == 1
\* largest token count passed to calculateCost when it is called directly
MaxTokens == 5
\* largest retry index passed to calculateBackoff when it is called directly
MaxAttemptIndex == 7
\* number of values Math.random() takes in calculateBackoff: k / JitterSteps
\* for k in 0..JitterSteps-1
JitterSteps == 4
MaxNewAgents == 1
MaxNewSessions == 1
MaxAdminCalls == 3

\* --------------------------------------------------------- program constants
\* DEFAULT_RETRY_CONFIG.maxRetries
maxRetries == 2

\* DEFAULT_RETRY_CONFIG
DEFAULT_RETRY_CONFIG == [maxRetries |-> maxRetries, initialBackoffMs |-> 200, timeoutMs |-> 2000]

Reqs == 1..NumRequests

\* JS null / undefined, as values that compare with records and strings
Null == [null |-> TRUE]
Undefined == "<undefined>"
NullStr == "<null>"
NoProvider == NullStr
\* an absent (undefined) retryAfterMs
NoRetryAfter == -1

\* --------------------------------------------------------------- seed data
\* tenants, agents and sessions are created by the management plane and are
\* read-only for a send (only lastActivityAt changes)
Tenants == {"t1", "t2"}

\* the API key the seed generated for each tenant
IssuedKeys == [t \in Tenants |-> IF t = "t1" THEN "key-t1" ELSE "key-t2"]

\* mutation of hashApiKey: every key has the same hash
hashApiKeyConstant(apiKey) == <<"sha256", "">>

\* hashApiKey: SHA-256 of the key, taken to be free of collisions
hashApiKey(apiKey) == <<"sha256", apiKey>>

\* table api_keys: the hash of each issued key with its tenant (read-only;
\* the lastUsedAt column is not modelled)
ApiKeys == { [keyHash |-> hashApiKey(IssuedKeys[t]), tenantId |-> t] : t \in Tenants }

Agents == {
  [id |-> "a1", tenantId |-> "t1", primaryProvider |-> "vendorA",
   fallbackProvider |-> "vendorB", systemPrompt |-> "Be brief."],
  [id |-> "a2", tenantId |-> "t2", primaryProvider |-> "vendorB",
   fallbackProvider |-> NoProvider, systemPrompt |-> "Be kind."] }

SessionIds == {"s1", "s2"}
MissingSession == "s9"

SessionsInit == [s \in SessionIds |->
  IF s = "s1"
  THEN [id |-> "s1", tenantId |-> "t1", agentId |-> "a1", status |-> "active", lastActivityAt |-> 0]
  ELSE [id |-> "s2", tenantId |-> "t2", agentId |-> "a2", status |-> "active", lastActivityAt |-> 0]]

VARIABLES
  pc,                  \* position of each send in sendMessage
  input,               \* arguments of each send
  local,               \* local variables of each send
  result,              \* what each send returned or threw
  idempotencyRecords,  \* table idempotency_records
  messages,            \* table messages, in createdAt order
  providerCallEvents,  \* table provider_call_events: the rows of each requestId,
                       \* in createdAt order
  usageEvents,         \* table usage_events, in createdAt order
  sessions,            \* table sessions
  failing,             \* sends that have seen a vendor call fail
  obs,                 \* history of each send (observation only)
  call,                \* the last direct call of a library function and its outcome
  faults,              \* how the vendors and the store can fail (never changes)
  config,              \* the RetryConfig the provider caller runs with (never changes)
  agents,              \* table agents
  admin                \* management plane: ids handed out, createSession under way

vars == <<pc, input, local, result, idempotencyRecords, messages,
          providerCallEvents, usageEvents, sessions, failing, obs, call, faults, config,
          agents, admin>>

\* the variables of the send pipeline
pipeline == <<pc, input, local, result, idempotencyRecords, messages,
              providerCallEvents, usageEvents, sessions, failing, obs, faults, config,
              agents, admin>>

store == <<idempotencyRecords, messages, providerCallEvents, usageEvents, sessions>>

\* ----------------------------------------------------------------- helpers
\* new Date(): the current time
Now == Len(messages) + 1

\* request.tenant of a request no tenant is attached to
NoTenant == ""

NoInput == [apiKey |-> Undefined, tenantId |-> NoTenant, sessionId |-> "",
            idempotencyKey |-> Undefined, content |-> ""]

NoLocal == [requestHash |-> <<>>, agent |-> Null, request |-> Null,
            phase |-> "primary", attempt |-> 0,
            primaryAttempts |-> <<>>, attempts |-> <<>>, outcome |-> Null,
            response |-> Null, assistantMessage |-> Null, cost |-> 0]

\* no call of the management plane, no agent or session created yet, no
\* createSession under way
NoAdmin == [calls |-> 0, agentIds |-> 0, sessionIds |-> 0, createSession |-> Null]

NoObs == [sawPending |-> FALSE, sawCompleted |-> FALSE, inserted |-> FALSE,
          vendorCalls |-> 0, touches |-> 0, completions |-> 0, overlapped |-> {},
          calls |-> <<>>, sleeps |-> <<>>, storeFailed |-> FALSE, providerResult |-> Null,
          abandoned |-> 0, lateResponses |-> 0, cancelled |-> FALSE]

\* mutation of Falsy: only an absent key is recognised
FalsyUndefinedOnly(k) == k = Undefined

\* JS truthiness of `idempotencyKey` (undefined and '' are falsy)
Falsy(k) == k = Undefined \/ k = ""

\* Math.ceil(text.length / 4)
estimateTokens(text) == (Len(text) + 3) \div 4

\* messages.map((m) => m.content).join(' ')
RECURSIVE JoinContents(_)
JoinContents(ms) ==
  IF Len(ms) = 0 THEN ""
  ELSE IF Len(ms) = 1 THEN ms[1].content
  ELSE ms[1].content \o " " \o JoinContents(Tail(ms))

\* ------------------------------------------------------------------ pricing
\* PRICING_TABLE, in micro-USD per 1000 tokens (0.002 USD and 0.003 USD)
PRICING_TABLE == [vendorA |-> 2000, vendorB |-> 3000]

\* Math.round(x) for x = n / d >= 0
MathRound(n, d) == (2 * n + d) \div (2 * d)

\* calculateCost, in micro-USD: Math.round(costUsd * 1000000) / 1000000
calculateCost(provider, tokensIn, tokensOut) ==
  LET totalTokens == tokensIn + tokensOut
  IN  MathRound(totalTokens * PRICING_TABLE[provider], 1000)

\* names every object literal inherits from Object.prototype
ObjectPrototypeKeys == {"constructor", "toString", "__proto__"}

\* PRICING_TABLE[provider]: an own entry, a member inherited from
\* Object.prototype (truthy, without usdPer1kTokens), or undefined
PricingLookup(provider) ==
  IF provider \in DOMAIN PRICING_TABLE THEN [usdPer1kTokens |-> PRICING_TABLE[provider]]
  ELSE IF provider \in ObjectPrototypeKeys THEN [inherited |-> provider]
  ELSE Null

\* ------------------------------------------------------------ vendor mocks
\* the faults of VendorAMock and VendorBMock: the first fails with 500, the
\* second with 429, and both answer within 1.2 s, before the 2 s timeout
MockFaults == [vendorA |-> [statuses |-> {500}, slow |-> FALSE],
               vendorB |-> [statuses |-> {429}, slow |-> FALSE],
               store |-> FALSE]

\* the faults of a vendor that is not a mock: any HTTP error status or none
\* in time
AnyFaults == [vendorA |-> [statuses |-> {400, 500}, slow |-> TRUE],
              vendorB |-> [statuses |-> {400, 429, 500}, slow |-> TRUE],
              store |-> FALSE]

\* the vendor mocks behind a store whose writes can be rejected (a Prisma
\* call that rejects: the database is locked, or a row it references is gone)
StoreFaults == [MockFaults EXCEPT !.store = TRUE]

\* VendorAMock.generateMockResponse; i is Math.floor(Math.random() * 5)
generateMockResponseA(i, userMessage) ==
  CASE i = 1 -> "Thank you for your message: \"" \o userMessage \o "\". How can I assist you further?"
    [] i = 2 -> "I understand you said: \"" \o userMessage \o "\". Let me help you with that."
    [] i = 3 -> "Regarding \"" \o userMessage \o "\", here's what I can tell you..."
    [] i = 4 -> "I've processed your request about: \"" \o userMessage \o "\". Here's the information you need."
    [] OTHER -> "Based on your query \"" \o userMessage \o "\", I recommend the following..."

\* VendorBMock.generateMockResponse
generateMockResponseB(i, userMessage) ==
  CASE i = 1 -> "I've received your message: \"" \o userMessage \o "\". Here's my response..."
    [] i = 2 -> "Analyzing your query: \"" \o userMessage \o "\". Based on that, I would say..."
    [] i = 3 -> "Thank you for asking about: \"" \o userMessage \o "\". Let me explain..."
    [] i = 4 -> "Your question \"" \o userMessage \o "\" is interesting. Here's what I think..."
    [] OTHER -> "Regarding \"" \o userMessage \o "\", I can provide the following information..."

Templates == 1..MaxTemplate

\* last message of the request, '' when there is none
LastUserMessage(request) ==
  IF Len(request.messages) > 0 THEN request.messages[Len(request.messages)].content ELSE ""

PromptText(request) == request.systemPrompt \o JoinContents(request.messages)

ProviderError(message, statusCode, errorCode, retryAfterMs) ==
  [ok |-> FALSE, message |-> message, statusCode |-> statusCode,
   errorCode |-> errorCode, retryAfterMs |-> retryAfterMs]

NormalizedResponse(text, tokensIn, tokensOut) ==
  [ok |-> TRUE, text |-> text, tokensIn |-> tokensIn, tokensOut |-> tokensOut]

\* VendorAAdapter.call over VendorAMock.call: the outcomes one call can have.
\* The mock draws the template of outputText and of tokensOut independently.
VendorAAdapterCall(request) ==
  { NormalizedResponse(generateMockResponseA(i, LastUserMessage(request)),
                       estimateTokens(PromptText(request)),
                       estimateTokens(generateMockResponseA(j, LastUserMessage(request))))
      : i \in Templates, j \in Templates }
  \cup { ProviderError("Internal server error", statusCode, "SERVER_ERROR", NoRetryAfter)
           : statusCode \in faults.vendorA.statuses }

\* retryAfterMs of a rate-limit answer, Math.floor(Math.random() * 2000 + 500)
RetryAfterChoices == {750}

\* VendorBAdapter.call over VendorBMock.call
VendorBAdapterCall(request) ==
  { NormalizedResponse(generateMockResponseB(i, LastUserMessage(request)),
                       estimateTokens(PromptText(request)),
                       estimateTokens(generateMockResponseB(i, LastUserMessage(request))))
      : i \in Templates }
  \cup { ProviderError("Rate limit exceeded", statusCode,
                       IF statusCode = 429 THEN "RATE_LIMIT" ELSE "SERVER_ERROR", ra)
           : statusCode \in faults.vendorB.statuses, ra \in RetryAfterChoices }

\* withTimeout: the ProviderError of a call that is slower than timeoutMs
TimeoutError(providerName) ==
  ProviderError("Provider " \o providerName \o " timed out after 2000ms", 504, "TIMEOUT",
                NoRetryAfter)

\* withTimeout(getProviderAdapter(name).call(request), timeoutMs)
ProviderCallOutcomes(providerName, request) ==
  (IF providerName = "vendorA" THEN VendorAAdapterCall(request)
   ELSE VendorBAdapterCall(request))
  \cup (IF faults[providerName].slow THEN {TimeoutError(providerName)} ELSE {})

\* mutation of isRetryableError: every failure is retried
isRetryableErrorAlways(error) == TRUE

\* ProviderError.isRetryable / isRetryableError
isRetryableError(error) == error.statusCode >= 500 \/ error.statusCode = 429

\* getRetryAfter: error.retryAfterMs, possibly undefined
getRetryAfter(error) == error.retryAfterMs

\* Math.pow(2, n)
RECURSIVE Pow2(_)
Pow2(n) == IF n = 0 THEN 1 ELSE 2 * Pow2(n - 1)

\* mutation of calculateBackoff: the jitter is applied to retryAfterMs too
calculateBackoffJitterAll(attempt, initialBackoffMs, retryAfterMs, k) ==
  LET backoff == IF retryAfterMs # NoRetryAfter /\ retryAfterMs > 0 THEN retryAfterMs
                 ELSE initialBackoffMs * Pow2(attempt)
  IN  (backoff * (9 * JitterSteps + 2 * k)) \div (10 * JitterSteps)

\* mutation of calculateBackoff: the backoff grows linearly
calculateBackoffLinear(attempt, initialBackoffMs, retryAfterMs, k) ==
  IF retryAfterMs # NoRetryAfter /\ retryAfterMs > 0 THEN retryAfterMs
  ELSE LET backoff == initialBackoffMs * (attempt + 3)
       IN  (backoff * (9 * JitterSteps + 2 * k)) \div (10 * JitterSteps)

\* calculateBackoff, where Math.random() returned k / JitterSteps:
\* Math.floor(backoff + backoff * 0.1 * (2 * k / JitterSteps - 1))
calculateBackoff(attempt, initialBackoffMs, retryAfterMs, k) ==
  IF retryAfterMs # NoRetryAfter /\ retryAfterMs > 0 THEN retryAfterMs
  ELSE LET backoff == initialBackoffMs * Pow2(attempt)
       IN  (backoff * (9 * JitterSteps + 2 * k)) \div (10 * JitterSteps)

\* the waits calculateBackoff can return for its arguments
BackoffChoices(attempt, initialBackoffMs, retryAfterMs) ==
  { calculateBackoff(attempt, initialBackoffMs, retryAfterMs, k) : k \in 0..(JitterSteps - 1) }

\* the ProviderCallAttempt pushed for an outcome of attempt number `attempt`
AttemptRecord(providerName, outcome, attempt) ==
  IF outcome.ok
  THEN [provider |-> providerName, status |-> "success", httpStatus |-> 200,
        retries |-> attempt, errorCode |-> NullStr, errorMessage |-> NullStr]
  ELSE [provider |-> providerName, status |-> "failed", httpStatus |-> outcome.statusCode,
        retries |-> attempt, errorCode |-> outcome.errorCode, errorMessage |-> outcome.message]

\* -------------------------------------------------------------------- JSON
\* a Date and its ISO string
Date(t) == [date |-> t]
toISOString(d) == [iso |-> d.date]

\* JSON.stringify of a SendMessageResponse: a Date becomes its ISO string,
\* strings, numbers, booleans and null are kept
JSONstringify(resp) ==
  [resp EXCEPT !.message.createdAt = IF "date" \in DOMAIN @ THEN toISOString(@) ELSE @]

\* JSON.parse of a stored responseJson: ISO strings stay strings
JSONparse(json) == json

\* lines 103-110: parse the stored response and mark it replayed
ReplayOf(responseJson) ==
  [JSONparse(responseJson) EXCEPT !.metadata.idempotency.replayed = TRUE]

\* ------------------------------------------------------------------- hash
\* computeRequestHash: SHA-256 of {tenantId, sessionId, content, timestamp},
\* timestamp defaulting to the current time
computeRequestHash(tenantId, sessionId, content, timestamp) ==
  <<tenantId, sessionId, content, timestamp>>

\* ------------------------------------------------------------ repositories
\* mutation of lookup: the tenant is not part of the key
lookupAnyTenant(tenantId, scope, idempotencyKey) ==
  LET hits == { rec \in idempotencyRecords :
                  rec.scope = scope /\ rec.idempotencyKey = idempotencyKey }
  IN  IF hits = {} THEN Null ELSE CHOOSE rec \in hits : TRUE

\* mutation of lookup: the key is not part of the key of the record
lookupAnyKey(tenantId, scope, idempotencyKey) ==
  LET hits == { rec \in idempotencyRecords :
                  rec.tenantId = tenantId /\ rec.scope = scope }
  IN  IF hits = {} THEN Null ELSE CHOOSE rec \in hits : TRUE

\* IdempotencyRepo.lookup: findUnique on (tenantId, scope, idempotencyKey)
lookup(tenantId, scope, idempotencyKey) ==
  LET hits == { rec \in idempotencyRecords :
                  /\ rec.tenantId = tenantId
                  /\ rec.scope = scope
                  /\ rec.idempotencyKey = idempotencyKey }
  IN  IF hits = {} THEN Null ELSE CHOOSE rec \in hits : TRUE

\* SessionRepo.findById: findFirst on (id, tenantId)
SessionFindById(tenantId, sessionId) ==
  IF sessionId \in DOMAIN sessions /\ sessions[sessionId].tenantId = tenantId
  THEN sessions[sessionId] ELSE Null

\* mutation of AgentFindById: the tenant is not part of the filter
AgentFindByIdAnyTenant(tenantId, agentId) ==
  LET hits == { a \in agents : a.id = agentId }
  IN  IF hits = {} THEN Null ELSE CHOOSE a \in hits : TRUE

\* AgentRepo.findById: findFirst on (id, tenantId)
AgentFindById(tenantId, agentId) ==
  LET hits == { a \in agents : a.id = agentId /\ a.tenantId = tenantId }
  IN  IF hits = {} THEN Null ELSE CHOOSE a \in hits : TRUE

\* MessageRepo.listBySession: where (tenantId, sessionId), orderBy createdAt asc
listBySession(tenantId, sessionId) ==
  SelectSeq(messages, LAMBDA m : m.tenantId = tenantId /\ m.sessionId = sessionId)

\* foreign key idempotency_records.sessionId -> sessions.id
SessionForeignKeyOk(sessionId) == sessionId \in DOMAIN sessions

\* ------------------------------------------------------------------ results
NoResult == [kind |-> "none"]
Returned(resp) == [kind |-> "ok", body |-> resp]
Thrown(code, details) == [kind |-> "error", code |-> code, details |-> details]

\* a number-typed return value that is NaN
ReturnedNaN == [kind |-> "ok", nan |-> TRUE]

\* no library function has been called directly
NoCall == [fn |-> "none"]

InFlight(q) == pc[q] \notin {"idle", "done"}

\* a send ends: its result is set and its locals are dropped
Finish(r, res) ==
  /\ pc' = [pc EXCEPT ![r] = "done"]
  /\ result' = [result EXCEPT ![r] = res]
  /\ local' = [local EXCEPT ![r] = NoLocal]

\* TenantRepo.findByApiKeyHash: findUnique on keyHash, the tenant of the key
findByApiKeyHash(keyHash) ==
  LET hits == { k \in ApiKeys : k.keyHash = keyHash }
  IN  IF hits = {} THEN NullStr ELSE (CHOOSE k \in hits : TRUE).tenantId

\* authTenant: the tenant attached to the request, or INVALID_API_KEY
authTenant(apiKey) ==
  IF Falsy(apiKey) THEN Thrown("INVALID_API_KEY", Null)
  ELSE LET tenant == findByApiKeyHash(hashApiKey(apiKey))
       IN  IF tenant = NullStr THEN Thrown("INVALID_API_KEY", Null)
           ELSE Returned(tenant)

\* authTenant attached a tenant to request r
Attached(r) == input[r].tenantId # NoTenant

\* an HTTP request: X-API-Key, :sessionId, Idempotency-Key and body content
SendArgs(a, s, k, c) == [apiKey |-> a, sessionId |-> s, idempotencyKey |-> k, content |-> c]

\* the HTTP request of a send
RequestOf(inp) == SendArgs(inp.apiKey, inp.sessionId, inp.idempotencyKey, inp.content)

\* the requests sent: for tenant t1 the same key with equal and different
\* content, a missing and an empty key, a session that does not exist and a
\* session of another tenant; another tenant using the same key; a request
\* without API key and one with a key that was never issued
SendInputs ==
  { SendArgs("key-t1", "s1", "k1", "hi"),
    SendArgs("key-t1", "s1", "k1", "hello"),
    SendArgs("key-t1", "s1", Undefined, "hi"),
    SendArgs("key-t1", "s1", "", "hi"),
    SendArgs("key-t1", MissingSession, "k1", "hi"),
    SendArgs("key-t1", "s2", "k1", "hi"),
    SendArgs("key-t2", "s2", "k1", "hi"),
    SendArgs(Undefined, "s1", "k1", "hi"),
    SendArgs("key-t0", "s1", "k1", "hi") }

\* what request r may send
ArgsOf(r) == IF r <= NumFresh THEN SendInputs ELSE {RequestOf(input[q]) : q \in 1..(r - 1)}

\* -------------------------------------------------------------------- Init
Init ==
  /\ pc = [r \in Reqs |-> "idle"]
  /\ input = [r \in Reqs |-> NoInput]
  /\ local = [r \in Reqs |-> NoLocal]
  /\ result = [r \in Reqs |-> NoResult]
  /\ idempotencyRecords = {}
  /\ messages = <<>>
  /\ providerCallEvents = [r \in Reqs |-> <<>>]
  /\ usageEvents = <<>>
  /\ sessions = SessionsInit
  /\ failing = {}
  /\ obs = [r \in Reqs |-> NoObs]
  /\ call = NoCall
  /\ faults = MockFaults
  /\ config = DEFAULT_RETRY_CONFIG
  /\ agents = Agents
  /\ admin = NoAdmin

\* ------------------------------------------------------------- sendMessage
\* the onRequest hook authTenant, the message route and sendMessage lines
\* 82-99: a request without a valid API key is rejected by the hook; the
\* route passes the attached tenant and the request to sendMessage, which
\* rejects a missing key and otherwise issues the idempotency lookup.
\* Request ids are handed out in arrival order.
SendMessageOf(r, requests) ==
  /\ pc[r] = "idle"
  /\ \A q \in Reqs : q < r => pc[q] # "idle"
  /\ Cardinality({q \in Reqs : InFlight(q)}) < MaxInFlight
  /\ r > NumFresh => \A q \in Reqs : ~InFlight(q)
  /\ \E req \in requests :
     LET auth == authTenant(req.apiKey)
         inp == [apiKey |-> req.apiKey,
                 tenantId |-> IF auth.kind = "ok" THEN auth.body ELSE NoTenant,
                 sessionId |-> req.sessionId, idempotencyKey |-> req.idempotencyKey,
                 content |-> req.content]
     IN
       /\ input' = [input EXCEPT ![r] = inp]
       /\ IF auth.kind = "error"
          THEN /\ Finish(r, auth)
               /\ obs' = obs
          ELSE IF Falsy(inp.idempotencyKey)
          THEN /\ Finish(r, Thrown("IDEMPOTENCY_KEY_REQUIRED", Null))
               /\ obs' = obs
          ELSE /\ pc' = [pc EXCEPT ![r] = "lookup"]
               /\ obs' = [q \in Reqs |->
                    IF q = r THEN [obs[q] EXCEPT !.overlapped = {p \in Reqs : InFlight(p)}]
                    ELSE IF InFlight(q) THEN [obs[q] EXCEPT !.overlapped = @ \cup {r}]
                    ELSE obs[q]]
               /\ UNCHANGED <<local, result>>
  /\ UNCHANGED <<store, failing>>

\* a send of one of the requests of the main specification arrives
SendMessage(r) == SendMessageOf(r, ArgsOf(r))

\* line 101: `existingRecord && existingRecord.responseJson`
HasResponse(rec) == rec # Null /\ rec.responseJson # Null

\* mutation of Replay: the user message is persisted before the replay returns
ReplayPersistingUserMessage(r, rec) ==
  /\ Finish(r, Returned(ReplayOf(rec.responseJson)))
  /\ obs' = [obs EXCEPT ![r].sawCompleted = TRUE]
  /\ messages' = Append(messages,
       [id |-> Len(messages) + 1, tenantId |-> input[r].tenantId,
        sessionId |-> input[r].sessionId, role |-> "user", content |-> input[r].content,
        createdAt |-> Date(Now), requestId |-> r])
  /\ UNCHANGED <<idempotencyRecords, providerCallEvents, usageEvents, sessions>>

\* lines 101-111 and 130-136: the stored response is parsed, marked replayed
\* and returned; nothing is written
Replay(r, rec) ==
  /\ Finish(r, Returned(ReplayOf(rec.responseJson)))
  /\ obs' = [obs EXCEPT ![r].sawCompleted = TRUE]
  /\ UNCHANGED store

\* lines 95-118: the lookup returns; a completed record is replayed, anything
\* else goes on to the request hash and the placeholder insert
Lookup(r) ==
  /\ pc[r] = "lookup"
  /\ LET existingRecord == lookup(input[r].tenantId, "send_message", input[r].idempotencyKey)
     IN  IF HasResponse(existingRecord)
         THEN Replay(r, existingRecord)
         ELSE /\ pc' = [pc EXCEPT ![r] = "create"]
              /\ local' = [local EXCEPT ![r].requestHash =
                             computeRequestHash(input[r].tenantId, input[r].sessionId,
                                                input[r].content, Now)]
              /\ obs' = [obs EXCEPT ![r].sawPending = (existingRecord # Null)]
              /\ UNCHANGED <<result, store>>
  /\ UNCHANGED <<input, failing>>

\* IdempotencyRepo.create, lines 50-60, and sendMessage line 130 on a fresh
\* row: the insert is guarded by the unique index on (tenantId, scope,
\* idempotencyKey) and by the foreign key on sessionId
Create(r) ==
  /\ pc[r] = "create"
  /\ LET inp == input[r]
         clash == lookup(inp.tenantId, "send_message", inp.idempotencyKey)
     IN  IF clash # Null
         THEN \* P2002: caught at line 61, the lookup is retried
              /\ pc' = [pc EXCEPT ![r] = "createLookup"]
              /\ UNCHANGED <<local, result, idempotencyRecords, obs>>
         ELSE IF ~SessionForeignKeyOk(inp.sessionId)
         THEN \* P2003: rethrown at line 82, surfaced by toAppError
              /\ Finish(r, Thrown("INTERNAL_ERROR", Null))
              /\ UNCHANGED <<idempotencyRecords, obs>>
         ELSE /\ idempotencyRecords' = idempotencyRecords \cup
                   { [id |-> Cardinality(idempotencyRecords) + 1,
                      tenantId |-> inp.tenantId,
                      scope |-> "send_message",
                      idempotencyKey |-> inp.idempotencyKey,
                      sessionId |-> inp.sessionId,
                      requestHash |-> local[r].requestHash,
                      responseJson |-> Null] }
              /\ obs' = [obs EXCEPT ![r].inserted = TRUE]
              /\ pc' = [pc EXCEPT ![r] = "findSession"]
              /\ UNCHANGED <<local, result>>
  /\ UNCHANGED <<input, messages, providerCallEvents, usageEvents, sessions, failing>>

\* mutation of CreateLookup: a record without a response turns the send away
CreateLookupTurnedAway(r) ==
  /\ pc[r] = "createLookup"
  /\ LET existing == lookup(input[r].tenantId, "send_message", input[r].idempotencyKey)
     IN  IF existing # Null /\ existing.responseJson # Null
         THEN Replay(r, existing)
         ELSE /\ Finish(r, Thrown("INTERNAL_ERROR", Null))
              /\ UNCHANGED <<obs, store>>
  /\ UNCHANGED <<input, failing>>

\* IdempotencyRepo.create, lines 61-83, and sendMessage lines 130-136: the
\* lookup after a unique violation returns the existing row to the caller,
\* which replays it if it has a response and otherwise carries on
CreateLookup(r) ==
  /\ pc[r] = "createLookup"
  /\ LET existing == lookup(input[r].tenantId, "send_message", input[r].idempotencyKey)
     IN  IF existing = Null
         THEN /\ Finish(r, Thrown("INTERNAL_ERROR", Null))
              /\ UNCHANGED <<obs, store>>
         ELSE IF existing.responseJson # Null
         THEN Replay(r, existing)
         ELSE /\ pc' = [pc EXCEPT ![r] = "findSession"]
              /\ obs' = [obs EXCEPT ![r].sawPending = TRUE]
              /\ UNCHANGED <<local, result, store>>
  /\ UNCHANGED <<input, failing>>

\* lines 139-147: the session and its agent are read under the tenant
\* filter; both tables are read-only during a send
FindSession(r) ==
  /\ pc[r] = "findSession"
  /\ LET session == SessionFindById(input[r].tenantId, input[r].sessionId)
         agent == IF session = Null THEN Null
                  ELSE AgentFindById(input[r].tenantId, session.agentId)
     IN  IF session = Null
         THEN Finish(r, Thrown("SESSION_NOT_FOUND", [sessionId |-> input[r].sessionId]))
         ELSE IF agent = Null
         THEN Finish(r, Thrown("AGENT_NOT_FOUND", [agentId |-> session.agentId]))
         ELSE /\ pc' = [pc EXCEPT ![r] = "createUserMessage"]
              /\ local' = [local EXCEPT ![r].agent = agent]
              /\ UNCHANGED result
  /\ UNCHANGED <<input, store, failing, obs>>

\* MessageRepo.create: the row gets a fresh id and the current time.  The
\* field requestId is not a column: it records which send wrote the row.
MessageRow(r, role, content) ==
  [id |-> Len(messages) + 1, tenantId |-> input[r].tenantId,
   sessionId |-> input[r].sessionId, role |-> role, content |-> content,
   createdAt |-> Date(Now), requestId |-> r]

\* lines 150-160: the user message is stored
CreateUserMessage(r) ==
  /\ pc[r] = "createUserMessage"
  /\ messages' = Append(messages, MessageRow(r, "user", input[r].content))
  /\ pc' = [pc EXCEPT ![r] = "updateLastActivity"]
  /\ UNCHANGED <<input, local, result, idempotencyRecords, providerCallEvents,
                 usageEvents, sessions, failing, obs>>

\* mutation of UpdateLastActivity: the update closes the session as well
UpdateLastActivityClosing(r) ==
  /\ pc[r] = "updateLastActivity"
  /\ sessions' = [sessions EXCEPT ![input[r].sessionId].lastActivityAt = Now,
                                  ![input[r].sessionId].status = "closed"]
  /\ obs' = [obs EXCEPT ![r].touches = @ + 1]
  /\ pc' = [pc EXCEPT ![r] = "listBySession"]
  /\ UNCHANGED <<input, local, result, idempotencyRecords, messages,
                 providerCallEvents, usageEvents, failing>>

\* line 160 / SessionRepo.updateLastActivity, then line 163 is issued
UpdateLastActivity(r) ==
  /\ pc[r] = "updateLastActivity"
  /\ sessions' = [sessions EXCEPT ![input[r].sessionId].lastActivityAt = Now]
  /\ obs' = [obs EXCEPT ![r].touches = @ + 1]
  /\ pc' = [pc EXCEPT ![r] = "listBySession"]
  /\ UNCHANGED <<input, local, result, idempotencyRecords, messages,
                 providerCallEvents, usageEvents, failing>>

\* lines 163-191 and providerCaller lines 211, 68-80: the history is read,
\* the request is built and the first call to the primary vendor is issued
ListBySession(r) ==
  /\ pc[r] = "listBySession"
  /\ LET previousMessages == listBySession(input[r].tenantId, input[r].sessionId)
         conversationHistory ==
           [systemPrompt |-> local[r].agent.systemPrompt,
            messages |-> [i \in 1..Len(previousMessages) |->
                            [role |-> previousMessages[i].role,
                             content |-> previousMessages[i].content]]]
     IN  local' = [local EXCEPT ![r].request = conversationHistory,
                                ![r].phase = "primary",
                                ![r].attempt = 0,
                                ![r].attempts = <<>>]
  /\ pc' = [pc EXCEPT ![r] = "providerCall"]
  /\ UNCHANGED <<input, result, store, failing, obs>>

\* ----------------------------------------------------------- providerCaller
\* the adapter the retry loop is running against
CurrentProvider(r) ==
  IF local[r].phase = "primary" THEN local[r].agent.primaryProvider
  ELSE local[r].agent.fallbackProvider

\* callProviderWithRetry lines 76-94 and 117-138: the vendor call settles
\* (response or ProviderError) and its attempt record is pushed
ProviderCall(r) ==
  /\ pc[r] = "providerCall"
  /\ \E outcome \in ProviderCallOutcomes(CurrentProvider(r), local[r].request) :
       /\ outcome.ok \/ r \in failing \/ Cardinality(failing) < MaxFailingSends
       /\ failing' = IF outcome.ok THEN failing ELSE failing \cup {r}
       /\ local' = [local EXCEPT
                      ![r].outcome = outcome,
                      ![r].attempts = Append(@, AttemptRecord(CurrentProvider(r), outcome,
                                                              local[r].attempt))]
       /\ obs' = [obs EXCEPT
                    ![r].vendorCalls = @ + 1,
                    ![r].calls = Append(@, [provider |-> CurrentProvider(r),
                                            retries |-> local[r].attempt,
                                            ok |-> outcome.ok]),
                    ![r].abandoned = IF outcome = TimeoutError(CurrentProvider(r))
                                     THEN @ + 1 ELSE @]
  /\ pc' = [pc EXCEPT ![r] = "recordAttempt"]
  /\ UNCHANGED <<input, result, store>>

\* mutation of EventRow: the row of the first attempt of the loop
EventRowOfFirstAttempt(r) ==
  LET a == local[r].attempts[1]
  IN  [tenantId |-> input[r].tenantId,
       sessionId |-> input[r].sessionId, agentId |-> local[r].agent.id,
       provider |-> a.provider, status |-> a.status, httpStatus |-> a.httpStatus,
       retries |-> a.retries, errorCode |-> a.errorCode, errorMessage |-> a.errorMessage,
       requestId |-> r]

\* ProviderCallEventRepo.create: the row of the attempt just pushed
EventRow(r) ==
  LET a == local[r].attempts[Len(local[r].attempts)]
  IN  [tenantId |-> input[r].tenantId,
       sessionId |-> input[r].sessionId, agentId |-> local[r].agent.id,
       provider |-> a.provider, status |-> a.status, httpStatus |-> a.httpStatus,
       retries |-> a.retries, errorCode |-> a.errorCode, errorMessage |-> a.errorMessage,
       requestId |-> r]

\* mutation of CombinedAttempts: the attempts of the primary vendor are dropped
CombinedAttemptsFallbackOnly(r) == local[r].attempts

\* callProviderWithFallback lines 232-236: attempts of both vendors
CombinedAttempts(r) ==
  IF local[r].phase = "fallback" THEN local[r].primaryAttempts \o local[r].attempts
  ELSE local[r].attempts

\* mutation of ProviderUsed: the primary vendor is named whoever answered
ProviderUsedPrimary(r) == local[r].agent.primaryProvider

\* providerResult.providerUsed / fallbackUsed of the result the provider
\* caller returns
ProviderUsed(r) == CurrentProvider(r)
FallbackUsed(r) == local[r].phase = "fallback"

\* the ProviderCallResult callProviderWithFallback returns (lines 110-116,
\* 179-185, 218-240), without the response and the error
ProviderCallResult(r, success) ==
  [success |-> success, attempts |-> CombinedAttempts(r),
   providerUsed |-> ProviderUsed(r), fallbackUsed |-> FallbackUsed(r)]

\* mutation of AttemptsRemain: the default policy is used whatever the config
AttemptsRemainDefault(r) == local[r].attempt < DEFAULT_RETRY_CONFIG.maxRetries

\* mutation of AttemptsRemain: one attempt more
AttemptsRemainOneMore(r) == local[r].attempt <= config.maxRetries

\* callProviderWithRetry line 157: `attempt < config.maxRetries`
AttemptsRemain(r) == local[r].attempt < config.maxRetries

\* mutation of GiveUp: the failure is stored as the response of the record
GiveUpCompleting(r) ==
  /\ Finish(r, Thrown("ALL_PROVIDERS_FAILED",
                      [primary |-> local[r].agent.primaryProvider,
                       fallback |-> local[r].agent.fallbackProvider,
                       attempts |-> CombinedAttempts(r)]))
  /\ idempotencyRecords' =
       { IF rec.tenantId = input[r].tenantId /\ rec.idempotencyKey = input[r].idempotencyKey
         THEN [rec EXCEPT !.responseJson =
                 [message |-> Null,
                  metadata |-> [idempotency |-> [key |-> input[r].idempotencyKey,
                                                 replayed |-> FALSE],
                                requestId |-> r]]]
         ELSE rec : rec \in idempotencyRecords }
  /\ obs' = [obs EXCEPT ![r].providerResult = ProviderCallResult(r, FALSE)]

\* mutation of GiveUp: the error payload carries no attempts
GiveUpWithoutAttempts(r) ==
  /\ Finish(r, Thrown("ALL_PROVIDERS_FAILED",
                      [primary |-> local[r].agent.primaryProvider,
                       fallback |-> local[r].agent.fallbackProvider,
                       attempts |-> <<>>]))
  /\ obs' = [obs EXCEPT ![r].providerResult = ProviderCallResult(r, FALSE)]
  /\ UNCHANGED idempotencyRecords

\* sendMessage lines 193-202: no vendor answered; ALL_PROVIDERS_FAILED is
\* thrown with the attempts made, and nothing else is written
GiveUp(r) ==
  /\ Finish(r, Thrown("ALL_PROVIDERS_FAILED",
                      [primary |-> local[r].agent.primaryProvider,
                       fallback |-> local[r].agent.fallbackProvider,
                       attempts |-> CombinedAttempts(r)]))
  /\ obs' = [obs EXCEPT ![r].providerResult = ProviderCallResult(r, FALSE)]
  /\ UNCHANGED idempotencyRecords

\* callProviderWithRetry lines 96-116 and 140-185, callProviderWithFallback
\* lines 218-240, sendMessage lines 193-204: the attempt row is stored, then
\* the loop returns the response, sleeps and issues the next attempt, hands
\* over to the fallback vendor, or gives up with ALL_PROVIDERS_FAILED.  The
\* backoff sleep touches no state, so it is part of this step.
RecordAttempt(r) ==
  /\ pc[r] = "recordAttempt"
  /\ providerCallEvents' = [providerCallEvents EXCEPT ![r] = Append(@, EventRow(r))]
  /\ LET outcome == local[r].outcome
         agent == local[r].agent
     IN  IF outcome.ok
         THEN /\ local' = [local EXCEPT ![r].response = outcome,
                                        ![r].attempts = CombinedAttempts(r),
                                        ![r].primaryAttempts = <<>>,
                                        ![r].request = Null,
                                        ![r].outcome = Null]
              /\ pc' = [pc EXCEPT ![r] = "createAssistantMessage"]
              /\ obs' = [obs EXCEPT ![r].providerResult = ProviderCallResult(r, TRUE)]
              /\ UNCHANGED <<result, idempotencyRecords>>
         ELSE IF AttemptsRemain(r) /\ isRetryableError(outcome)
         THEN \* lines 159-170: sleep(backoffMs), backoffMs one of the
              \* BackoffChoices of these arguments, then the next attempt
              /\ local' = [local EXCEPT ![r].attempt = @ + 1, ![r].outcome = Null]
              /\ pc' = [pc EXCEPT ![r] = "providerCall"]
              /\ obs' = [obs EXCEPT ![r].sleeps =
                           Append(@, [attempt |-> local[r].attempt,
                                      initialBackoffMs |-> config.initialBackoffMs,
                                      retryAfterMs |-> getRetryAfter(outcome)])]
              /\ UNCHANGED <<result, idempotencyRecords>>
         ELSE IF local[r].phase = "primary" /\ agent.fallbackProvider # NoProvider
         THEN /\ local' = [local EXCEPT ![r].phase = "fallback",
                                        ![r].primaryAttempts = local[r].attempts,
                                        ![r].attempts = <<>>,
                                        ![r].attempt = 0,
                                        ![r].outcome = Null]
              /\ pc' = [pc EXCEPT ![r] = "providerCall"]
              /\ UNCHANGED <<result, idempotencyRecords, obs>>
         ELSE GiveUp(r)
  /\ UNCHANGED <<input, messages, usageEvents, sessions, failing>>

\* lines 207-221: the assistant message is stored
CreateAssistantMessage(r) ==
  /\ pc[r] = "createAssistantMessage"
  /\ LET row == MessageRow(r, "assistant", local[r].response.text)
     IN  /\ messages' = Append(messages, row)
         /\ local' = [local EXCEPT
              ![r].assistantMessage = row,
              ![r].cost = calculateCost(ProviderUsed(r), local[r].response.tokensIn,
                                        local[r].response.tokensOut)]
  /\ pc' = [pc EXCEPT ![r] = "createUsageEvent"]
  /\ UNCHANGED <<input, result, idempotencyRecords, providerCallEvents,
                 usageEvents, sessions, failing, obs>>

\* UsageEventRepo.create, lines 223-233
UsageRow(r) ==
  [id |-> Len(usageEvents) + 1, tenantId |-> input[r].tenantId,
   sessionId |-> input[r].sessionId, agentId |-> local[r].agent.id,
   provider |-> ProviderUsed(r), tokensIn |-> local[r].response.tokensIn,
   tokensOut |-> local[r].response.tokensOut, costUsd |-> local[r].cost,
   requestId |-> r]

\* mutation of CreateUsageEvent: the usage event is not stored
CreateUsageEventSkipped(r) ==
  /\ pc[r] = "createUsageEvent"
  /\ pc' = [pc EXCEPT ![r] = "updateResponse"]
  /\ UNCHANGED <<input, local, result, store, failing, obs>>

\* lines 223-233: the usage event is stored
CreateUsageEvent(r) ==
  /\ pc[r] = "createUsageEvent"
  /\ usageEvents' = Append(usageEvents, UsageRow(r))
  /\ pc' = [pc EXCEPT ![r] = "updateResponse"]
  /\ UNCHANGED <<input, local, result, idempotencyRecords, messages,
                 providerCallEvents, sessions, failing, obs>>

\* lines 236-273: the response envelope
SendMessageResponse(r) ==
  LET m == local[r].assistantMessage
      attempts == local[r].attempts
  IN  [message |-> [id |-> m.id, sessionId |-> m.sessionId, role |-> m.role,
                    content |-> m.content, createdAt |-> m.createdAt],
       metadata |->
         [agentId |-> local[r].agent.id,
          providerUsed |-> ProviderUsed(r),
          primaryAttempted |-> local[r].agent.primaryProvider,
          fallbackAttempted |-> local[r].agent.fallbackProvider,
          fallbackUsed |-> FallbackUsed(r),
          attempts |-> [i \in 1..Len(attempts) |->
                          [provider |-> attempts[i].provider,
                           status |-> attempts[i].status,
                           httpStatus |-> attempts[i].httpStatus,
                           retries |-> attempts[i].retries,
                           errorCode |-> attempts[i].errorCode]],
          usage |-> [tokensIn |-> local[r].response.tokensIn,
                     tokensOut |-> local[r].response.tokensOut,
                     costUsd |-> local[r].cost,
                     pricing |-> [usdPer1kTokens |->
                        IF ProviderUsed(r) = "vendorA" THEN 2000 ELSE 3000]],
          idempotency |-> [key |-> input[r].idempotencyKey, replayed |-> FALSE],
          requestId |-> r]]

\* IdempotencyRepo.updateResponse: update on (tenantId, scope, idempotencyKey)
updateResponse(tenantId, scope, idempotencyKey, responseJson) ==
  { IF rec.tenantId = tenantId /\ rec.scope = scope /\ rec.idempotencyKey = idempotencyKey
    THEN [rec EXCEPT !.responseJson = responseJson]
    ELSE rec : rec \in idempotencyRecords }

\* lines 276-283: the response is stored in the idempotency record and returned
UpdateResponse(r) ==
  /\ pc[r] = "updateResponse"
  /\ idempotencyRecords' = updateResponse(input[r].tenantId, "send_message",
                                          input[r].idempotencyKey,
                                          JSONstringify(SendMessageResponse(r)))
  /\ obs' = [obs EXCEPT ![r].completions = @ + 1]
  /\ Finish(r, Returned(SendMessageResponse(r)))
  /\ UNCHANGED <<input, messages, providerCallEvents, usageEvents, sessions, failing>>

\* the positions of a send at which a write to the store is awaited
StoreWrites ==
  {"create", "createUserMessage", "updateLastActivity", "recordAttempt",
   "createAssistantMessage", "createUsageEvent", "updateResponse"}

\* the write a send is waiting for is rejected with an error that is no
\* AppError and no ProviderError, and nothing is written.  The rejection of
\* ProviderCallEventRepo.create at providerCaller line 97 is thrown inside
\* the try block of the loop: the catch at lines 117-138 replaces it by a
\* ProviderError('Unknown error', 500, 'UNKNOWN_ERROR'), pushes a failed
\* attempt with the same retry index and awaits the write of its row at
\* line 141.  Every other rejection leaves sendMessage and is turned into
\* INTERNAL_ERROR by toAppError.
StoreWriteFails(r) ==
  /\ faults.store
  /\ pc[r] \in StoreWrites
  /\ IF pc[r] = "recordAttempt" /\ local[r].outcome.ok
     THEN LET providerError == ProviderError("Unknown error", 500, "UNKNOWN_ERROR", NoRetryAfter)
          IN  /\ local' = [local EXCEPT
                             ![r].outcome = providerError,
                             ![r].attempts = Append(@, AttemptRecord(CurrentProvider(r),
                                                                     providerError,
                                                                     local[r].attempt))]
              /\ UNCHANGED <<pc, result>>
     ELSE Finish(r, Thrown("INTERNAL_ERROR", Null))
  /\ obs' = [obs EXCEPT ![r].storeFailed = TRUE]
  /\ UNCHANGED <<input, store, failing>>

\* mutation of LateResponse: the response that arrives late is taken as the
\* response of the attempt that is under way
LateResponseUsed(r) ==
  /\ obs[r].abandoned > 0
  /\ obs' = [obs EXCEPT ![r].abandoned = @ - 1, ![r].lateResponses = @ + 1]
  /\ IF pc[r] = "providerCall"
     THEN /\ local' = [local EXCEPT
                         ![r].outcome = NormalizedResponse("late", 1, 1),
                         ![r].attempts = Append(@, AttemptRecord(CurrentProvider(r),
                                                   NormalizedResponse("late", 1, 1),
                                                   local[r].attempt))]
          /\ pc' = [pc EXCEPT ![r] = "recordAttempt"]
     ELSE UNCHANGED <<pc, local>>
  /\ UNCHANGED <<input, result, store, failing>>

\* withTimeout lines 101-115: the vendor call that lost the race against
\* the timer goes on running, and when it settles, with a response or an
\* error, the promise returned by Promise.race has already been rejected:
\* the late outcome reaches no code of the send
LateResponse(r) ==
  /\ obs[r].abandoned > 0
  /\ obs' = [obs EXCEPT ![r].abandoned = @ - 1, ![r].lateResponses = @ + 1]
  /\ UNCHANGED <<pc, input, local, result, store, failing>>

\* the client of send r hangs up while the send is running.  The message
\* route (messages.ts lines 28-66) awaits sendMessage and registers no
\* listener on the request or the socket, sendMessage and the provider
\* caller take no cancellation signal, and sleep (retryPolicy.ts lines
\* 81-83) is a bare setTimeout: the event reaches no code of the send
Cancel(r) ==
  /\ pc[r] \notin {"idle", "done"}
  /\ ~obs[r].cancelled
  /\ obs' = [obs EXCEPT ![r].cancelled = TRUE]
  /\ UNCHANGED <<pc, input, local, result, store, failing>>

\* -------------------------------------------------------------------- Next
\* a send that has been started takes its next step
Step(r) ==
  \/ Lookup(r)
  \/ Create(r)
  \/ CreateLookup(r)
  \/ FindSession(r)
  \/ CreateUserMessage(r)
  \/ UpdateLastActivity(r)
  \/ ListBySession(r)
  \/ ProviderCall(r)
  \/ RecordAttempt(r)
  \/ CreateAssistantMessage(r)
  \/ CreateUsageEvent(r)
  \/ UpdateResponse(r)

Next ==
  /\ UNCHANGED <<call, faults, config, agents, admin>>
  /\ \E r \in Reqs : SendMessage(r) \/ Step(r)

Spec == Init /\ [][Next]_vars

\* ------------------------------------------------- direct calls of functions
\* calculateCost for any provider name: lines 37-41 throw when the table has
\* no truthy member of that name; otherwise the cost is computed, and a rate
\* of undefined makes it NaN
calculateCostCall(provider, tokensIn, tokensOut) ==
  LET pricing == PricingLookup(provider)
  IN  IF pricing = Null THEN Thrown("Error", [message |-> "Unknown provider: " \o provider])
      ELSE IF "usdPer1kTokens" \notin DOMAIN pricing THEN ReturnedNaN
      ELSE Returned(calculateCost(provider, tokensIn, tokensOut))

\* the provider names calculateCost is called with
PricingProviders == {"vendorA", "vendorB", "vendorC", "constructor"}

\* a caller (the pricing unit tests) calls calculateCost
CalculateCost ==
  /\ \E provider \in PricingProviders, tokensIn \in 0..MaxTokens, tokensOut \in 0..MaxTokens :
       call' = [fn |-> "calculateCost", provider |-> provider,
                tokensIn |-> tokensIn, tokensOut |-> tokensOut,
                outcome |-> calculateCostCall(provider, tokensIn, tokensOut)]
  /\ UNCHANGED pipeline

PricingSpec == Init /\ [][CalculateCost]_vars

\* ------------------------------------------------ sends against any vendor
\* the gateway with vendors that can fail in every way
RetryInit ==
  /\ pc = [r \in Reqs |-> "idle"]
  /\ input = [r \in Reqs |-> NoInput]
  /\ local = [r \in Reqs |-> NoLocal]
  /\ result = [r \in Reqs |-> NoResult]
  /\ idempotencyRecords = {}
  /\ messages = <<>>
  /\ providerCallEvents = [r \in Reqs |-> <<>>]
  /\ usageEvents = <<>>
  /\ sessions = SessionsInit
  /\ failing = {}
  /\ obs = [r \in Reqs |-> NoObs]
  /\ call = NoCall
  /\ faults = AnyFaults
  /\ config = DEFAULT_RETRY_CONFIG
  /\ agents = Agents
  /\ admin = NoAdmin

\* one request is sent and runs alone, so that IdempotencyRepo.create never
\* meets a record
RetryNext ==
  /\ UNCHANGED <<call, faults, config, agents, admin>>
  /\ \E r \in {1} :
       \/ SendMessage(r)
       \/ Lookup(r)
       \/ Create(r)
       \/ FindSession(r)
       \/ CreateUserMessage(r)
       \/ UpdateLastActivity(r)
       \/ ListBySession(r)
       \/ ProviderCall(r)
       \/ RecordAttempt(r)
       \/ CreateAssistantMessage(r)
       \/ CreateUsageEvent(r)
       \/ UpdateResponse(r)

RetrySpec == RetryInit /\ [][RetryNext]_vars

\* every continuation that is ready is run by the event loop, and every
\* timer (backoff sleep, call timeout) fires
RetryLiveSpec == RetrySpec /\ WF_vars(RetryNext)

\* ---------------------------------------------- late answers after a timeout
\* one send against vendors that can fail in every way; a call abandoned at
\* its timeout settles at any later time, also after the send has ended
TimeoutNext ==
  \/ RetryNext
  \/ UNCHANGED <<call, faults, config, agents, admin>> /\ LateResponse(1)

TimeoutSpec == RetryInit /\ [][TimeoutNext]_vars

\* --------------------------------------------------------- management plane
\* generateAgentId / generateSessionId: prefix and a uuid, never handed out twice
generateAgentId == "agent_" \o ToString(admin.agentIds + 1)
generateSessionId == "session_" \o ToString(admin.sessionIds + 1)

\* an agent id no agent was ever created with
MissingAgent == "agent_0"

\* String.prototype.trim on the strings of the model
trim(str) == IF str = " " THEN "" ELSE str

\* JS truthiness of an optional string
Truthy(v) == v \notin {Undefined, NullStr, ""}

\* the body of POST /v1/agents and PATCH /v1/agents/:id; a field that is
\* absent is Undefined, fallbackProvider can also be null (NoProvider)
AgentInput(n, p, f, sp) ==
  [name |-> n, primaryProvider |-> p, fallbackProvider |-> f, systemPrompt |-> sp]

\* Object.keys(input)
Keys(inp) == {k \in DOMAIN inp : inp[k] # Undefined}

\* validateAgentInput: Null when the input passes, the error thrown otherwise
validateAgentInput(inp) ==
  IF inp.name # Undefined /\ trim(inp.name) = ""
  THEN Thrown("VALIDATION_ERROR", [field |-> "name"])
  ELSE IF Truthy(inp.primaryProvider) /\ inp.primaryProvider \notin {"vendorA", "vendorB"}
  THEN Thrown("VALIDATION_ERROR", [field |-> "primaryProvider"])
  ELSE IF Truthy(inp.fallbackProvider) /\ inp.fallbackProvider \notin {"vendorA", "vendorB"}
  THEN Thrown("VALIDATION_ERROR", [field |-> "fallbackProvider"])
  ELSE IF /\ Truthy(inp.primaryProvider) /\ Truthy(inp.fallbackProvider)
          /\ inp.primaryProvider = inp.fallbackProvider
  THEN Thrown("VALIDATION_ERROR", [field |-> "fallbackProvider"])
  ELSE IF inp.systemPrompt # Undefined /\ trim(inp.systemPrompt) = ""
  THEN Thrown("VALIDATION_ERROR", [field |-> "systemPrompt"])
  ELSE Null

\* the bodies the create route lets through (createAgentSchema)
CreateAgentInputs ==
  { AgentInput("Bot", p, f, "Be brief.") :
      p \in {"vendorA", "vendorB"}, f \in {Undefined, NoProvider, "vendorA", "vendorB"} }
  \cup { AgentInput(" ", "vendorA", Undefined, "Be brief.") }

\* the patches the update route lets through (updateAgentSchema), and one
\* the service can be called with directly
UpdateAgentInputs ==
  { AgentInput(Undefined, p, f, Undefined) :
      p \in {Undefined, "vendorA", "vendorB"},
      f \in {Undefined, NoProvider, "vendorA", "vendorB"} }
  \cup { AgentInput(Undefined, Undefined, "vendorC", Undefined),
         AgentInput(Undefined, Undefined, Undefined, " ") }

\* prisma update: the fields of data replace those of the row
Merge(row, data) ==
  [k \in DOMAIN row \cup DOMAIN data |-> IF k \in DOMAIN data THEN data[k] ELSE row[k]]

\* updateAgent lines 94-104: the fields of the patch that are written
UpdateData(inp) ==
  LET written == {k \in {"name", "primaryProvider", "systemPrompt"} : Truthy(inp[k])}
                 \cup (IF inp.fallbackProvider # Undefined THEN {"fallbackProvider"} ELSE {})
  IN  [k \in written |-> inp[k]]

\* createAgent
CreateAgent(tenantId, inp) ==
  /\ admin.calls < MaxAdminCalls
  /\ admin.agentIds < MaxNewAgents
  /\ LET invalid == validateAgentInput(inp)
         agent == [id |-> generateAgentId, tenantId |-> tenantId, name |-> inp.name,
                   primaryProvider |-> inp.primaryProvider,
                   fallbackProvider |-> IF inp.fallbackProvider = Undefined THEN NoProvider
                                        ELSE inp.fallbackProvider,
                   systemPrompt |-> inp.systemPrompt]
     IN  IF invalid # Null
         THEN /\ call' = [fn |-> "createAgent", tenantId |-> tenantId, agentId |-> NullStr,
                          input |-> inp, outcome |-> invalid]
              /\ agents' = agents
              /\ admin' = [admin EXCEPT !.calls = @ + 1]
         ELSE /\ agents' = agents \cup {agent}
              /\ admin' = [admin EXCEPT !.calls = @ + 1, !.agentIds = @ + 1]
              /\ call' = [fn |-> "createAgent", tenantId |-> tenantId, agentId |-> agent.id,
                          input |-> inp, outcome |-> Returned(agent)]
  /\ UNCHANGED <<pc, input, local, result, store, failing, obs, faults, config>>

\* updateAgent over AgentRepo.update
UpdateAgent(tenantId, agentId, inp) ==
  /\ admin.calls < MaxAdminCalls
  /\ admin' = [admin EXCEPT !.calls = @ + 1]
  /\ LET invalid == IF Keys(inp) # {} THEN validateAgentInput(inp) ELSE Null
         existing == AgentFindById(tenantId, agentId)
     IN  IF invalid # Null
         THEN /\ call' = [fn |-> "updateAgent", tenantId |-> tenantId, agentId |-> agentId,
                          input |-> inp, outcome |-> invalid]
              /\ UNCHANGED agents
         ELSE IF existing = Null
         THEN /\ call' = [fn |-> "updateAgent", tenantId |-> tenantId, agentId |-> agentId,
                          input |-> inp,
                          outcome |-> Thrown("AGENT_NOT_FOUND", [agentId |-> agentId])]
              /\ UNCHANGED agents
         ELSE LET agent == Merge(existing, UpdateData(inp))
              IN  /\ agents' = (agents \ {existing}) \cup {agent}
                  /\ call' = [fn |-> "updateAgent", tenantId |-> tenantId,
                              agentId |-> agentId, input |-> inp,
                              outcome |-> Returned(agent)]
  /\ UNCHANGED <<pc, input, local, result, store, failing, obs, faults, config>>

\* deleteAgent over AgentRepo.deleteAgent; the foreign keys on agentId and
\* sessionId are ON DELETE CASCADE (migration.sql)
DeleteAgent(tenantId, agentId) ==
  /\ admin.calls < MaxAdminCalls
  /\ admin' = [admin EXCEPT !.calls = @ + 1]
  /\ LET existing == AgentFindById(tenantId, agentId)
         kept == {sid \in DOMAIN sessions : sessions[sid].agentId # agentId}
     IN  IF existing = Null
         THEN /\ call' = [fn |-> "deleteAgent", tenantId |-> tenantId, agentId |-> agentId,
                          input |-> Null,
                          outcome |-> Thrown("AGENT_NOT_FOUND", [agentId |-> agentId])]
              /\ UNCHANGED <<agents, store>>
         ELSE /\ call' = [fn |-> "deleteAgent", tenantId |-> tenantId, agentId |-> agentId,
                          input |-> Null, outcome |-> Returned(Null)]
              /\ agents' = agents \ {existing}
              /\ sessions' = [sid \in kept |-> sessions[sid]]
              /\ messages' = SelectSeq(messages, LAMBDA m : m.sessionId \in kept)
              /\ usageEvents' = SelectSeq(usageEvents, LAMBDA u : u.sessionId \in kept)
              /\ providerCallEvents' =
                   [r \in Reqs |->
                      SelectSeq(providerCallEvents[r], LAMBDA e : e.sessionId \in kept)]
              /\ idempotencyRecords' = {rec \in idempotencyRecords : rec.sessionId \in kept}
  /\ UNCHANGED <<pc, input, local, result, failing, obs, faults, config>>

\* createSession lines 27-33: the agent is looked up under the tenant
CreateSessionFind(tenantId, agentId) ==
  /\ admin.calls < MaxAdminCalls
  /\ admin.createSession = Null
  /\ admin.sessionIds < MaxNewSessions
  /\ IF AgentFindById(tenantId, agentId) = Null
     THEN /\ call' = [fn |-> "createSession", tenantId |-> tenantId, agentId |-> agentId,
                      input |-> Null,
                      outcome |-> Thrown("AGENT_NOT_FOUND", [agentId |-> agentId])]
          /\ admin' = [admin EXCEPT !.calls = @ + 1]
     ELSE /\ admin' = [admin EXCEPT !.calls = @ + 1,
                                    !.sessionIds = @ + 1,
                                    !.createSession = [id |-> generateSessionId,
                                                       tenantId |-> tenantId,
                                                       agentId |-> agentId]]
          /\ UNCHANGED call
  /\ UNCHANGED <<pc, input, local, result, store, failing, obs, faults, config, agents>>

\* createSession lines 36-44 over SessionRepo.create: the insert is guarded
\* by the foreign key sessions.agentId -> agents.id
CreateSessionInsert ==
  /\ admin.createSession # Null
  /\ LET data == admin.createSession
         session == [id |-> data.id, tenantId |-> data.tenantId, agentId |-> data.agentId,
                     status |-> "active", lastActivityAt |-> Now]
     IN  IF \E a \in agents : a.id = data.agentId
         THEN /\ sessions' = [sid \in DOMAIN sessions \cup {data.id} |->
                                IF sid = data.id THEN session ELSE sessions[sid]]
              /\ call' = [fn |-> "createSession", tenantId |-> data.tenantId,
                          agentId |-> data.agentId, input |-> Null,
                          outcome |-> Returned(session)]
         ELSE /\ call' = [fn |-> "createSession", tenantId |-> data.tenantId,
                          agentId |-> data.agentId, input |-> Null,
                          outcome |-> Thrown("INTERNAL_ERROR", Null)]
              /\ UNCHANGED sessions
  /\ admin' = [admin EXCEPT !.createSession = Null]
  /\ UNCHANGED <<pc, input, local, result, idempotencyRecords, messages, providerCallEvents,
                 usageEvents, failing, obs, faults, config, agents>>

\* the agent ids a request can name
AgentIdsNamed == {a.id : a \in agents} \cup {MissingAgent}

\* the tenants manage their agents and open sessions, in any order
AdminNext ==
  \/ \E t \in Tenants, inp \in CreateAgentInputs : CreateAgent(t, inp)
  \/ \E t \in Tenants, a \in AgentIdsNamed, inp \in UpdateAgentInputs : UpdateAgent(t, a, inp)
  \/ \E t \in Tenants, a \in AgentIdsNamed : DeleteAgent(t, a)
  \/ \E t \in Tenants, a \in AgentIdsNamed : CreateSessionFind(t, a)
  \/ CreateSessionInsert

AdminSpec == Init /\ [][AdminNext]_vars

\* ------------------------------------- two keys and two sessions of a tenant
\* tenant t1 has opened two sessions with agent a1
SessionsOfT1 == [s \in {"s1", "s3"} |->
  [id |-> s, tenantId |-> "t1", agentId |-> "a1", status |-> "active", lastActivityAt |-> 0]]

\* the requests of t1: two keys on one session, with different and with
\* equal content, and one key on two sessions
KeyInputs ==
  { SendArgs("key-t1", "s1", "k1", "hi"),
    SendArgs("key-t1", "s1", "k2", "hello"),
    SendArgs("key-t1", "s1", "k2", "hi"),
    SendArgs("key-t1", "s3", "k1", "hey") }

KeysInit ==
  /\ pc = [r \in Reqs |-> "idle"]
  /\ input = [r \in Reqs |-> NoInput]
  /\ local = [r \in Reqs |-> NoLocal]
  /\ result = [r \in Reqs |-> NoResult]
  /\ idempotencyRecords = {}
  /\ messages = <<>>
  /\ providerCallEvents = [r \in Reqs |-> <<>>]
  /\ usageEvents = <<>>
  /\ sessions = SessionsOfT1
  /\ failing = {}
  /\ obs = [r \in Reqs |-> NoObs]
  /\ call = NoCall
  /\ faults = MockFaults
  /\ config = DEFAULT_RETRY_CONFIG
  /\ agents = Agents
  /\ admin = NoAdmin

\* two sends of t1 against the vendor mocks, one after the other or at once
KeysNext ==
  /\ UNCHANGED <<call, faults, config, agents, admin>>
  /\ \E r \in {1, 2} : SendMessageOf(r, KeyInputs) \/ Step(r)

KeysSpec == KeysInit /\ [][KeysNext]_vars

\* ------------------------------------------------------- client hang-ups
\* one send against vendors that can fail in every way, whose client can
\* hang up at any point of the send
CancelNext ==
  \/ RetryNext
  \/ UNCHANGED <<call, faults, config, agents, admin>> /\ Cancel(1)

CancelSpec == RetryInit /\ [][CancelNext]_vars

\* ------------------------------------------- sends with a one-attempt policy
\* callProviderWithFallback run with a RetryConfig of maxRetries = 0 instead
\* of the default that sendMessage passes
NoRetryInit ==
  /\ pc = [r \in Reqs |-> "idle"]
  /\ input = [r \in Reqs |-> NoInput]
  /\ local = [r \in Reqs |-> NoLocal]
  /\ result = [r \in Reqs |-> NoResult]
  /\ idempotencyRecords = {}
  /\ messages = <<>>
  /\ providerCallEvents = [r \in Reqs |-> <<>>]
  /\ usageEvents = <<>>
  /\ sessions = SessionsInit
  /\ failing = {}
  /\ obs = [r \in Reqs |-> NoObs]
  /\ call = NoCall
  /\ faults = AnyFaults
  /\ config = [DEFAULT_RETRY_CONFIG EXCEPT !.maxRetries = 0]
  /\ agents = Agents
  /\ admin = NoAdmin

NoRetrySpec == NoRetryInit /\ [][RetryNext]_vars

\* ------------------------------------------ sends against a store that fails
StoreFaultInit ==
  /\ pc = [r \in Reqs |-> "idle"]
  /\ input = [r \in Reqs |-> NoInput]
  /\ local = [r \in Reqs |-> NoLocal]
  /\ result = [r \in Reqs |-> NoResult]
  /\ idempotencyRecords = {}
  /\ messages = <<>>
  /\ providerCallEvents = [r \in Reqs |-> <<>>]
  /\ usageEvents = <<>>
  /\ sessions = SessionsInit
  /\ failing = {}
  /\ obs = [r \in Reqs |-> NoObs]
  /\ call = NoCall
  /\ faults = StoreFaults
  /\ config = DEFAULT_RETRY_CONFIG
  /\ agents = Agents
  /\ admin = NoAdmin

\* one request is sent and runs alone; a write it waits for may be rejected
StoreFaultNext ==
  \/ RetryNext
  \/ UNCHANGED <<call, faults, config, agents, admin>> /\ StoreWriteFails(1)

StoreFaultSpec == StoreFaultInit /\ [][StoreFaultNext]_vars

\* ------------------------------------------- direct calls of calculateBackoff
\* the initial backoffs calculateBackoff is called with
InitialBackoffs == {DEFAULT_RETRY_CONFIG.initialBackoffMs, 1000}

\* the retryAfterMs values calculateBackoff is called with
RetryAfterValues == {NoRetryAfter, 0, 1500}

\* a caller (the retry loop, the retry policy unit tests) calls
\* calculateBackoff, and Math.random() returns one of its values
CalculateBackoff ==
  /\ \E attempt \in 0..MaxAttemptIndex, initialBackoffMs \in InitialBackoffs,
        retryAfterMs \in RetryAfterValues, k \in 0..(JitterSteps - 1) :
       call' = [fn |-> "calculateBackoff", attempt |-> attempt,
                initialBackoffMs |-> initialBackoffMs, retryAfterMs |-> retryAfterMs,
                outcome |-> Returned(calculateBackoff(attempt, initialBackoffMs,
                                                      retryAfterMs, k))]
  /\ UNCHANGED pipeline

BackoffSpec == Init /\ [][CalculateBackoff]_vars

\* ================================================================== claims
\* sends p and q use the same (tenant, 'send_message', key)
SameKey(p, q) ==
  /\ pc[p] # "idle" /\ pc[q] # "idle"
  /\ ~Falsy(input[p].idempotencyKey)
  /\ input[p].tenantId = input[q].tenantId
  /\ input[p].idempotencyKey = input[q].idempotencyKey

\* the rows a send has written
MessagesOf(r, role) ==
  {i \in DOMAIN messages : messages[i].requestId = r /\ messages[i].role = role}
UsageOf(r) == {i \in DOMAIN usageEvents : usageEvents[i].requestId = r}

\* the (tenant, key) pairs in use
KeysInUse ==
  {<<input[r].tenantId, input[r].idempotencyKey>> :
     r \in {q \in Reqs : pc[q] # "idle" /\ ~Falsy(input[q].idempotencyKey)}}

\* the sends under a (tenant, key) pair
SendsUnder(tk) ==
  {r \in Reqs : pc[r] # "idle" /\ input[r].tenantId = tk[1] /\ input[r].idempotencyKey = tk[2]}

\* the send has called no vendor and written no row
NoEffects(r) ==
  /\ obs[r].vendorCalls = 0
  /\ ~obs[r].inserted
  /\ obs[r].touches = 0
  /\ obs[r].completions = 0
  /\ MessagesOf(r, "user") = {}
  /\ MessagesOf(r, "assistant") = {}
  /\ providerCallEvents[r] = <<>>
  /\ UsageOf(r) = {}

\* what the transport puts on the wire for a returned envelope
Wire(resp) == JSONstringify(resp)

Replayed(r) == result[r].kind = "ok" /\ result[r].body.metadata.idempotency.replayed
Completed(r) == result[r].kind = "ok" /\ ~result[r].body.metadata.idempotency.replayed

\* C1: for every tenant and idempotency key, the sends under that key have
\* created at most one usage event in total, under any interleaving.
C1_OneUsageEventPerKey ==
  \A tk \in KeysInUse :
    Cardinality({i \in DOMAIN usageEvents : usageEvents[i].requestId \in SendsUnder(tk)}) <= 1

\* C2: for every (tenant, key) pair, the sends under that key have created
\* at most one message with role 'assistant'.
C2_OneAssistantMessagePerKey ==
  \A tk \in KeysInUse :
    Cardinality({i \in DOMAIN messages :
                   messages[i].role = "assistant" /\ messages[i].requestId \in SendsUnder(tk)}) <= 1

\* C3: of two sends with the same (tenant, key) that ran concurrently, at
\* most one reaches the vendor-call step; the other replays or is turned away.
C3_OneConcurrentSendCallsVendor ==
  \A p, q \in Reqs :
    (p # q /\ SameKey(p, q) /\ q \in obs[p].overlapped)
      => ~(pc[p] \in {"providerCall", "recordAttempt"} \/ obs[p].vendorCalls > 0)
         \/ ~(pc[q] \in {"providerCall", "recordAttempt"} \/ obs[q].vendorCalls > 0)

\* the error codes of the taxonomy that name another condition than a
\* concurrent duplicate
OtherErrorCodes ==
  {"IDEMPOTENCY_KEY_REQUIRED", "SESSION_NOT_FOUND", "AGENT_NOT_FOUND",
   "ALL_PROVIDERS_FAILED", "INVALID_API_KEY", "INTERNAL_ERROR"}

\* C4: a send that finds an idempotency record whose response is still null
\* calls no vendor, writes no row and ends with a conflict-shaped result.
C4_PendingRecordIsConflict ==
  \A r \in Reqs :
    obs[r].sawPending =>
      /\ NoEffects(r)
      /\ pc[r] = "done" => (result[r].kind = "error" /\ result[r].code \notin OtherErrorCodes)

\* C5: once a send under a key has completed, every replay under the same
\* tenant and key returns the envelope of the completing send, equal in every
\* field except metadata.idempotency.replayed, which is true; all replays of
\* a key return the same envelope.
C5_ReplayFidelity ==
  \A p, q \in Reqs :
    (p # q /\ SameKey(p, q) /\ Replayed(q)) =>
      /\ Completed(p) =>
           Wire(result[q].body) =
             [Wire(result[p].body) EXCEPT !.metadata.idempotency.replayed = TRUE]
      /\ Replayed(p) => Wire(result[q].body) = Wire(result[p].body)

\* the send whose envelope a replay returned
OriginalOf(r) == result[r].body.metadata.requestId

\* C6: a send that finds a completed idempotency record returns it as a
\* replay; it has called no vendor and written no row, and the step that
\* returns the replay leaves every table unchanged, whatever its content.
C6_ReplayWritesNothing ==
  /\ [](\A r \in Reqs :
          obs[r].sawCompleted => (pc[r] = "done" /\ Replayed(r) /\ NoEffects(r)))
  /\ [][\A r \in Reqs :
          (~obs[r].sawCompleted /\ obs'[r].sawCompleted) => UNCHANGED store]_vars

\* a replay whose content differs from the content of the original send
C6_Witness ==
  \E r \in Reqs :
    /\ obs[r].sawCompleted /\ Replayed(r)
    /\ input[OriginalOf(r)].content # input[r].content

\* C7: a record whose response is set is never changed again: its response
\* is neither overwritten nor reset.
C7_ResponseSetOnce ==
  [][\A rec \in idempotencyRecords :
       rec.responseJson # Null => rec \in idempotencyRecords']_vars

\* C8: whenever a record has a response, the assistant message and the
\* usage event of the send that stored it are in the store; and a send has
\* returned replayed=true only for a key whose record has a response.
C8_CompletionIsLastWrite ==
  /\ \A rec \in idempotencyRecords :
       rec.responseJson # Null =>
         LET resp == rec.responseJson
         IN  /\ \E i \in DOMAIN messages :
                  /\ messages[i].id = resp.message.id
                  /\ messages[i].role = "assistant"
                  /\ messages[i].requestId = resp.metadata.requestId
             /\ \E i \in DOMAIN usageEvents :
                  usageEvents[i].requestId = resp.metadata.requestId
  /\ \A r \in Reqs :
       Replayed(r) =>
         HasResponse(lookup(input[r].tenantId, "send_message", input[r].idempotencyKey))

\* a record is completed and a later send has replayed it
C8_Witness ==
  \E r \in Reqs :
    /\ Replayed(r)
    /\ \E rec \in idempotencyRecords : rec.responseJson # Null

\* C9: a send without an idempotency key (undefined or empty) ends with
\* IDEMPOTENCY_KEY_REQUIRED, has no row of any table to its name, and no step
\* it takes changes a table.
C9_MissingKeyRejected ==
  /\ [](\A r \in Reqs :
          (pc[r] # "idle" /\ input[r].idempotencyKey \in {Undefined, ""}) =>
            /\ pc[r] = "done"
            /\ result[r] = Thrown("IDEMPOTENCY_KEY_REQUIRED", Null)
            /\ NoEffects(r))
  /\ [][\A r \in Reqs :
          (pc'[r] # pc[r] /\ input'[r].idempotencyKey \in {Undefined, ""})
            => UNCHANGED store]_vars

\* one send with an undefined key and one with an empty key have been rejected
C9_Witness ==
  \E p, q \in Reqs :
    /\ pc[p] = "done" /\ input[p].idempotencyKey = Undefined
    /\ pc[q] = "done" /\ input[q].idempotencyKey = ""

\* the last attempt of a send that has ended failed: every vendor loop of
\* the send is exhausted
AllProvidersFailed(r) ==
  /\ pc[r] = "done"
  /\ providerCallEvents[r] # <<>>
  /\ providerCallEvents[r][Len(providerCallEvents[r])].status = "failed"

\* C10: a send whose vendors all failed ends with ALL_PROVIDERS_FAILED; it
\* has written no assistant message and no usage event and has not completed
\* the idempotency record, whose response is null unless another send of the
\* key completed it; its user message and one attempt row per vendor call
\* are in the store; and the step that gives up changes no message, usage
\* event or idempotency record.
C10_AllProvidersFailed ==
  /\ [](\A r \in Reqs :
          AllProvidersFailed(r) =>
            /\ result[r].kind = "error" /\ result[r].code = "ALL_PROVIDERS_FAILED"
            /\ MessagesOf(r, "assistant") = {}
            /\ UsageOf(r) = {}
            /\ obs[r].completions = 0
            /\ (\A q \in Reqs : SameKey(r, q) => obs[q].completions = 0)
                 => ~HasResponse(lookup(input[r].tenantId, "send_message",
                                        input[r].idempotencyKey))
            /\ \E i \in MessagesOf(r, "user") : messages[i].content = input[r].content
            /\ Len(providerCallEvents[r]) = obs[r].vendorCalls
            /\ Len(result[r].details.attempts) = obs[r].vendorCalls)
  /\ [][\A r \in Reqs :
          (pc[r] # "done" /\ pc'[r] = "done" /\ result'[r].kind = "error"
             /\ result'[r].code = "ALL_PROVIDERS_FAILED")
            => UNCHANGED <<idempotencyRecords, messages, usageEvents>>]_vars

\* a send has failed after three attempts on the primary vendor and three
\* on the fallback vendor
C10_Witness ==
  \E r \in Reqs :
    /\ AllProvidersFailed(r)
    /\ result[r].code = "ALL_PROVIDERS_FAILED"
    /\ result[r].details.fallback # NoProvider
    /\ Len(providerCallEvents[r]) = 2 * (maxRetries + 1)

\* send p ended with ALL_PROVIDERS_FAILED before send q, a send of the same
\* tenant, key and session, was started
FailedBefore(p, q) ==
  /\ p < q /\ SameKey(p, q) /\ p \notin obs[q].overlapped
  /\ input[p].sessionId = input[q].sessionId
  /\ result[p].kind = "error" /\ result[p].code = "ALL_PROVIDERS_FAILED"

\* q has ended; it was sent after a failed send of its key, when no send of
\* the key had completed and none was in flight, and none ran beside it
RetryAfterFailure(q) ==
  /\ pc[q] = "done"
  /\ \E p \in Reqs : FailedBefore(p, q)
  /\ \A p \in Reqs \ {q} :
       SameKey(p, q) => /\ p \notin obs[q].overlapped
                        /\ p < q => result[p].kind = "error"

\* C11: a send that follows a send of the same tenant and key that failed
\* with ALL_PROVIDERS_FAILED, with no other send of the key in flight, is
\* executed again: it calls the vendors, and when a vendor answers it returns
\* an envelope with replayed=false and stores it in the idempotency record.
C11_RetryAfterFailureRuns ==
  \A q \in Reqs :
    RetryAfterFailure(q) =>
      /\ obs[q].vendorCalls > 0
      /\ result[q].kind = "error" => result[q].code = "ALL_PROVIDERS_FAILED"
      /\ result[q].kind = "ok" =>
           /\ ~result[q].body.metadata.idempotency.replayed
           /\ result[q].body.metadata.requestId = q
           /\ obs[q].completions = 1
           /\ lookup(input[q].tenantId, "send_message", input[q].idempotencyKey).responseJson
                = Wire(result[q].body)

\* a send has failed and the retry with the same key has succeeded
C11_Witness ==
  \E p, q \in Reqs :
    /\ RetryAfterFailure(q) /\ FailedBefore(p, q)
    /\ Completed(q)

\* the send names a session that does not exist for its tenant
NoSessionFor(r) ==
  /\ pc[r] # "idle" /\ Attached(r) /\ ~Falsy(input[r].idempotencyKey)
  /\ SessionFindById(input[r].tenantId, input[r].sessionId) = Null

\* C12: a send against a session that does not exist for the tenant, and
\* that is not answered by a replay, ends with SESSION_NOT_FOUND (or
\* AGENT_NOT_FOUND); it calls no vendor, writes no message, attempt or usage
\* row, and leaves the placeholder record of its key without a response.
C12_MissingSessionRejected ==
  \A r \in Reqs :
    (NoSessionFor(r) /\ pc[r] = "done" /\ ~obs[r].sawCompleted) =>
      /\ result[r].kind = "error"
      /\ result[r].code \in {"SESSION_NOT_FOUND", "AGENT_NOT_FOUND"}
      /\ obs[r].vendorCalls = 0 /\ obs[r].touches = 0 /\ obs[r].completions = 0
      /\ MessagesOf(r, "user") = {} /\ MessagesOf(r, "assistant") = {}
      /\ providerCallEvents[r] = <<>> /\ UsageOf(r) = {}
      /\ LET rec == lookup(input[r].tenantId, "send_message", input[r].idempotencyKey)
         IN  /\ rec # Null
             /\ (\A q \in Reqs : SameKey(r, q) => obs[q].completions = 0)
                  => rec.responseJson = Null

\* the messages of a role written by the sends under a (tenant, key) pair
MessagesUnder(tk, role) ==
  {i \in DOMAIN messages : messages[i].role = role /\ messages[i].requestId \in SendsUnder(tk)}

\* C13: once a send under a key has completed successfully, the sends under
\* that key have left exactly one user message, one assistant message and
\* one usage event, also when failed sends under the key came first.
C13_OneExchangePerCompletedKey ==
  \A q \in Reqs :
    Completed(q) =>
      LET tk == <<input[q].tenantId, input[q].idempotencyKey>>
      IN  /\ Cardinality(MessagesUnder(tk, "user")) = 1
          /\ Cardinality(MessagesUnder(tk, "assistant")) = 1
          /\ Cardinality({i \in DOMAIN usageEvents :
                            usageEvents[i].requestId \in SendsUnder(tk)}) = 1

\* session s exists and is owned by tenant t, and so is its agent
OwnedSession(t, s) ==
  /\ s \in DOMAIN sessions
  /\ sessions[s].tenantId = t
  /\ \E a \in Agents : a.id = sessions[s].agentId /\ a.tenantId = t

\* the rows of tenant t in the tables a send writes
RowsOfTenant(t) ==
  <<SelectSeq(messages, LAMBDA m : m.tenantId = t),
    [r \in Reqs |-> SelectSeq(providerCallEvents[r], LAMBDA e : e.tenantId = t)],
    SelectSeq(usageEvents, LAMBDA u : u.tenantId = t),
    {rec \in idempotencyRecords : rec.tenantId = t},
    {s \in DOMAIN sessions : sessions[s].tenantId = t},
    [s \in {x \in DOMAIN sessions : sessions[x].tenantId = t} |-> sessions[s]]>>

\* the message, attempt and usage rows carry the tenant of the send that
\* wrote them and reference a session and an agent of that tenant
RowsCarryTenant ==
  /\ \A i \in DOMAIN messages :
       /\ messages[i].tenantId = input[messages[i].requestId].tenantId
       /\ OwnedSession(messages[i].tenantId, messages[i].sessionId)
  /\ \A r \in Reqs : \A i \in DOMAIN providerCallEvents[r] :
       LET e == providerCallEvents[r][i]
       IN  /\ e.tenantId = input[r].tenantId
           /\ OwnedSession(e.tenantId, e.sessionId)
           /\ sessions[e.sessionId].agentId = e.agentId
  /\ \A i \in DOMAIN usageEvents :
       LET u == usageEvents[i]
       IN  /\ u.tenantId = input[u.requestId].tenantId
           /\ OwnedSession(u.tenantId, u.sessionId)
           /\ sessions[u.sessionId].agentId = u.agentId

\* an idempotency record references a session of its own tenant
RecordsCarryTenant ==
  \A rec \in idempotencyRecords : OwnedSession(rec.tenantId, rec.sessionId)

\* a send that names a session of another tenant ends with SESSION_NOT_FOUND
ForeignSessionRejected ==
  \A r \in Reqs :
    (pc[r] = "done" /\ Attached(r) /\ ~Falsy(input[r].idempotencyKey)
       /\ ~obs[r].sawCompleted
       /\ input[r].sessionId \in DOMAIN sessions
       /\ sessions[input[r].sessionId].tenantId # input[r].tenantId)
      => (result[r].kind = "error" /\ result[r].code = "SESSION_NOT_FOUND")

\* a step of a send changes no row of another tenant
StepsStayInTenant ==
  \A r \in Reqs : \A t \in Tenants :
    (pc'[r] # pc[r] /\ input'[r].tenantId # t) => RowsOfTenant(t)' = RowsOfTenant(t)

\* C14: every message, attempt, usage and idempotency row carries the tenant
\* of the send that wrote it and references a session and agent of that
\* tenant; a send naming a session of another tenant ends with
\* SESSION_NOT_FOUND; and no step of a send changes a row of another tenant,
\* lastActivityAt included.
C14_TenantIsolation ==
  /\ [](RowsCarryTenant /\ RecordsCarryTenant /\ ForeignSessionRejected)
  /\ [][StepsStayInTenant]_vars

\* C15: idempotency keys are scoped per tenant.  A replay returns an
\* envelope stored by a send of the same tenant and key; a stored response
\* belongs to a send of the record's tenant; and a send that is the only
\* one of its tenant under a key never meets a record, whatever other
\* tenants did with the same key string: it inserts its own placeholder.
C15_KeysScopedPerTenant ==
  /\ \A r \in Reqs :
       Replayed(r) =>
         /\ input[OriginalOf(r)].tenantId = input[r].tenantId
         /\ input[OriginalOf(r)].idempotencyKey = input[r].idempotencyKey
  /\ \A rec \in idempotencyRecords :
       rec.responseJson # Null =>
         input[rec.responseJson.metadata.requestId].tenantId = rec.tenantId
  /\ \A r \in Reqs :
       (pc[r] = "done" /\ Attached(r) /\ ~Falsy(input[r].idempotencyKey)
          /\ \A q \in Reqs \ {r} : ~SameKey(r, q)) =>
         /\ ~obs[r].sawPending /\ ~obs[r].sawCompleted
         /\ SessionForeignKeyOk(input[r].sessionId) => obs[r].inserted

\* two tenants have each completed a send under the same key string
C15_Witness ==
  \E p, q \in Reqs :
    /\ Completed(p) /\ Completed(q)
    /\ input[p].tenantId # input[q].tenantId
    /\ input[p].idempotencyKey = input[q].idempotencyKey

\* micro-USD per token of the two vendors
MicroUsdPerToken(provider) == IF provider = "vendorA" THEN 2 ELSE 3

\* C16: calculateCost returns (tokensIn + tokensOut) / 1000 times the rate
\* of the vendor, rounded to 6 decimals: 2 micro-USD per token for vendorA
\* and 3 for vendorB, 0 for zero tokens; for any other vendor name it throws
\* and returns no cost.  Every usage event carries that cost.
C16_CostCorrect ==
  /\ call.fn = "calculateCost" =>
       IF call.provider \in {"vendorA", "vendorB"}
       THEN call.outcome =
              Returned(MicroUsdPerToken(call.provider) * (call.tokensIn + call.tokensOut))
       ELSE call.outcome.kind = "error"
  /\ \A i \in DOMAIN usageEvents :
       usageEvents[i].costUsd =
         MicroUsdPerToken(usageEvents[i].provider)
           * (usageEvents[i].tokensIn + usageEvents[i].tokensOut)

\* C17: the usage event of a successful send names the vendor that
\* produced the response, the vendor of the last, successful attempt: it is
\* metadata.providerUsed, the tokens and the cost of the event are those of
\* metadata.usage, and usdPer1kTokens is the rate of that vendor, also when
\* the fallback vendor answered.
C17_UsageNamesWinningVendor ==
  \A r \in Reqs :
    Completed(r) =>
      LET md == result[r].body.metadata
          last == md.attempts[Len(md.attempts)]
      IN  /\ Cardinality(UsageOf(r)) = 1
          /\ last.status = "success"
          /\ md.fallbackUsed <=> (Len(md.attempts) > 1 /\ md.attempts[1].provider # last.provider)
          /\ md.fallbackUsed => last.provider = md.fallbackAttempted
          /\ \A i \in UsageOf(r) :
               /\ usageEvents[i].provider = last.provider
               /\ usageEvents[i].provider = md.providerUsed
               /\ usageEvents[i].tokensIn = md.usage.tokensIn
               /\ usageEvents[i].tokensOut = md.usage.tokensOut
               /\ usageEvents[i].costUsd = md.usage.costUsd
               /\ md.usage.pricing.usdPer1kTokens = PRICING_TABLE[usageEvents[i].provider]

\* a send has been answered by the fallback vendor after the primary failed
C17_Witness ==
  \E r \in Reqs :
    /\ Completed(r)
    /\ result[r].body.metadata.fallbackUsed
    /\ result[r].body.metadata.providerUsed = "vendorB"
    /\ Len(result[r].body.metadata.attempts) = maxRetries + 2

\* the tenants a key was issued to
OwnersOf(apiKey) == {t \in Tenants : IssuedKeys[t] = apiKey}

RowsFor(r, provider) == SelectSeq(providerCallEvents[r], LAMBDA e : e.provider = provider)

\* the vendors of the agent a send runs against
PrimaryOf(r) == (CHOOSE a \in Agents : a.id = sessions[input[r].sessionId].agentId).primaryProvider

\* C19: every send terminates.  At most maxRetries + 1 calls go to one
\* vendor, numbered 0, 1, 2; the calls to the primary vendor come first and
\* the fallback vendor is only called after them; a send that has called a
\* vendor ends in a success envelope or in ALL_PROVIDERS_FAILED; and every
\* send that was started ends.
C19_SendTerminates ==
  /\ [](\A r \in Reqs :
          /\ obs[r].vendorCalls <= 2 * (maxRetries + 1)
          /\ \A v \in {"vendorA", "vendorB"} :
               /\ Len(RowsFor(r, v)) <= maxRetries + 1
               /\ \A i \in DOMAIN RowsFor(r, v) : RowsFor(r, v)[i].retries = i - 1
          /\ \A i \in DOMAIN providerCallEvents[r] :
               (i > 1 /\ providerCallEvents[r][i].provider = PrimaryOf(r))
                 => providerCallEvents[r][i - 1].provider = PrimaryOf(r)
          /\ (pc[r] = "done" /\ obs[r].vendorCalls > 0) =>
               \/ Completed(r)
               \/ result[r].kind = "error" /\ result[r].code = "ALL_PROVIDERS_FAILED")
  /\ \A r \in Reqs : (pc[r] # "idle") ~> (pc[r] = "done")

\* a send has ended after three calls to the primary vendor and three to
\* the fallback vendor, the last one a timeout
C19_Witness ==
  \E r \in Reqs :
    /\ pc[r] = "done"
    /\ obs[r].vendorCalls = 2 * (maxRetries + 1)
    /\ providerCallEvents[r][2 * (maxRetries + 1)].httpStatus = 504

\* the statuses after which the retry loop goes on
RetryableStatus(httpStatus) == httpStatus >= 500 \/ httpStatus = 429

\* the row of a failed attempt has just been stored for send r
FailedRowStored(r) ==
  /\ Len(providerCallEvents'[r]) = Len(providerCallEvents[r]) + 1
  /\ providerCallEvents'[r][Len(providerCallEvents'[r])].status = "failed"

\* the vendor the next call of send r is issued to, if a call is issued
NextCallGoesTo(r) == IF pc[r] = "providerCall" THEN CurrentProvider(r) ELSE NoProvider

\* C20: in the loop against one vendor a failure with status >= 500 or 429
\* (the 504 of a timeout included) is followed by another attempt against
\* that vendor while attempts remain, and a failure with another 4xx status
\* is the last attempt against that vendor.
C20_RetryOnlyRetryable ==
  /\ [][\A r \in Reqs :
          FailedRowStored(r) =>
            LET e == providerCallEvents'[r][Len(providerCallEvents'[r])]
            IN  IF RetryableStatus(e.httpStatus) /\ e.retries < maxRetries
                THEN NextCallGoesTo(r)' = e.provider
                ELSE NextCallGoesTo(r)' # e.provider]_vars
  /\ [](\A r \in Reqs : \A v \in {"vendorA", "vendorB"} :
          \A i \in DOMAIN RowsFor(r, v) :
            LET e == RowsFor(r, v)[i]
            IN  /\ i < Len(RowsFor(r, v)) =>
                     (e.status = "failed" /\ RetryableStatus(e.httpStatus))
                /\ (e.status = "failed" /\ ~RetryableStatus(e.httpStatus)) =>
                     i = Len(RowsFor(r, v)))

\* a timeout was followed by a second attempt, which failed with 400 and
\* ended the loop against the primary vendor; the fallback was called next
C20_Witness ==
  \E r \in Reqs :
    /\ Len(providerCallEvents[r]) >= 3
    /\ providerCallEvents[r][1].httpStatus = 504
    /\ providerCallEvents[r][2].httpStatus = 400
    /\ providerCallEvents[r][2].provider = providerCallEvents[r][1].provider
    /\ providerCallEvents[r][3].provider # providerCallEvents[r][2].provider

\* the send ended with a list of attempts of its own: in a success envelope
\* that is no replay, or in the payload of ALL_PROVIDERS_FAILED
ReturnsAttempts(r) ==
  \/ Completed(r)
  \/ result[r].kind = "error" /\ result[r].code = "ALL_PROVIDERS_FAILED"

\* the attempt list returned for a send
ReturnedAttempts(r) ==
  IF result[r].kind = "ok" THEN result[r].body.metadata.attempts ELSE result[r].details.attempts

\* the entries of a list of attempts that name one vendor, in order
EntriesFor(attempts, provider) == SelectSeq(attempts, LAMBDA a : a.provider = provider)

\* C21: in the attempt list returned for a send there is one entry per
\* vendor call, in the order the calls were made, and the entries of each
\* vendor carry the retry indices 0, 1, 2, ... without gap or repetition,
\* the fallback vendor starting again at 0.
C21_AttemptOrder ==
  \A r \in Reqs :
    ReturnsAttempts(r) =>
      LET attempts == ReturnedAttempts(r)
      IN  /\ Len(attempts) = Len(obs[r].calls)
          /\ \A i \in DOMAIN attempts :
               /\ attempts[i].provider = obs[r].calls[i].provider
               /\ attempts[i].retries = obs[r].calls[i].retries
          /\ \A v \in {"vendorA", "vendorB"} :
               \A i \in DOMAIN EntriesFor(attempts, v) :
                 EntriesFor(attempts, v)[i].retries = i - 1

\* C22: in every success envelope the attempt list has exactly one entry
\* with status 'success'; it is the last entry and names
\* metadata.providerUsed, every earlier entry is 'failed', fallbackUsed is
\* true exactly when providerUsed is the fallback vendor of the agent, and
\* the vendor call that succeeded is the last call of the send.
C22_SuccessEnvelopeFaithful ==
  \A r \in Reqs :
    Completed(r) =>
      LET md == result[r].body.metadata
          n == Len(md.attempts)
      IN  /\ n >= 1
          /\ md.attempts[n].status = "success"
          /\ md.attempts[n].provider = md.providerUsed
          /\ \A i \in 1..(n - 1) : md.attempts[i].status = "failed"
          /\ md.fallbackUsed <=> md.providerUsed = md.fallbackAttempted
          /\ \A i \in DOMAIN obs[r].calls : obs[r].calls[i].ok => i = Len(obs[r].calls)

\* the fallback vendor of the agent a send runs against
FallbackOf(r) == (CHOOSE a \in Agents : a.id = sessions[input[r].sessionId].agentId).fallbackProvider

\* C23: the fallback vendor is called only after the retry loop against
\* the primary vendor has ended in failure: within a send no call to the
\* fallback vendor precedes a call to the primary vendor, every call before
\* the first call to the fallback vendor went to the primary vendor and
\* failed, and a send whose primary vendor answered a call calls no
\* fallback vendor.
C23_FallbackAfterPrimaryFailed ==
  \A r \in Reqs :
    LET calls == obs[r].calls
    IN  /\ \A i, j \in DOMAIN calls :
             (calls[i].provider = FallbackOf(r) /\ calls[j].provider = PrimaryOf(r)) => j < i
        /\ calls # <<>> => calls[1].provider = PrimaryOf(r)
        /\ \A i \in DOMAIN calls :
             calls[i].provider = FallbackOf(r) =>
               /\ i > 1
               /\ \A j \in 1..(i - 1) : calls[j].provider = PrimaryOf(r) => ~calls[j].ok
        /\ (\E j \in DOMAIN calls : calls[j].provider = PrimaryOf(r) /\ calls[j].ok)
             => \A i \in DOMAIN calls : calls[i].provider # FallbackOf(r)

\* the calls of a send that went to one vendor, in order
CallsTo(r, provider) == SelectSeq(obs[r].calls, LAMBDA c : c.provider = provider)

\* the retry loop against the primary vendor of a send ended in failure
PrimaryFailed(r) ==
  /\ CallsTo(r, PrimaryOf(r)) # <<>>
  /\ \A i \in DOMAIN CallsTo(r, PrimaryOf(r)) : ~CallsTo(r, PrimaryOf(r))[i].ok

\* the attempt a call is recorded as
AttemptOfCall(c) == [provider |-> c.provider, retries |-> c.retries,
                     status |-> IF c.ok THEN "success" ELSE "failed"]

\* C24: when the primary vendor has failed and the agent has a fallback
\* vendor, the result callProviderWithFallback returns has fallbackUsed =
\* true and names the fallback vendor, and its attempt list is the attempts
\* against the primary vendor followed by the attempts against the fallback
\* vendor, each in call order, whether the fallback vendor answered or not.
C24_FallbackResultConcatenates ==
  \A r \in Reqs :
    (obs[r].providerResult # Null /\ PrimaryFailed(r) /\ FallbackOf(r) # NoProvider) =>
      LET res == obs[r].providerResult
          primaryCalls == CallsTo(r, PrimaryOf(r))
          fallbackCalls == CallsTo(r, FallbackOf(r))
          all == primaryCalls \o fallbackCalls
      IN  /\ res.fallbackUsed
          /\ res.providerUsed = FallbackOf(r)
          /\ fallbackCalls # <<>>
          /\ res.success <=> fallbackCalls[Len(fallbackCalls)].ok
          /\ Len(res.attempts) = Len(all)
          /\ \A i \in DOMAIN all :
               [provider |-> res.attempts[i].provider, retries |-> res.attempts[i].retries,
                status |-> res.attempts[i].status] = AttemptOfCall(all[i])

\* the primary vendor failed once with 400, and the fallback vendor failed
\* three times: the result has four attempts and is no success
C24_Witness ==
  \E r \in Reqs :
    /\ obs[r].providerResult # Null /\ PrimaryFailed(r) /\ FallbackOf(r) # NoProvider
    /\ ~obs[r].providerResult.success
    /\ Len(CallsTo(r, PrimaryOf(r))) = 1
    /\ Len(obs[r].providerResult.attempts) = maxRetries + 2

\* C25: a send to an agent without fallback vendor whose primary vendor
\* failed all its attempts ends with ALL_PROVIDERS_FAILED; the attempts of
\* the error payload are the calls to the primary vendor, one entry per
\* call in call order, the result of the provider caller has fallbackUsed =
\* false, and no other vendor was called.
C25_NoFallbackFailsWithPrimaryAttempts ==
  \A r \in Reqs :
    (pc[r] = "done" /\ obs[r].calls # <<>> /\ FallbackOf(r) = NoProvider /\ PrimaryFailed(r)) =>
      /\ result[r].kind = "error"
      /\ result[r].code = "ALL_PROVIDERS_FAILED"
      /\ result[r].details.primary = PrimaryOf(r)
      /\ result[r].details.fallback = NoProvider
      /\ \A i \in DOMAIN obs[r].calls : obs[r].calls[i].provider = PrimaryOf(r)
      /\ Len(result[r].details.attempts) = Len(obs[r].calls)
      /\ \A i \in DOMAIN obs[r].calls :
           LET a == result[r].details.attempts[i]
           IN  [provider |-> a.provider, retries |-> a.retries, status |-> a.status]
                 = AttemptOfCall(obs[r].calls[i])
      /\ ~obs[r].providerResult.fallbackUsed
      /\ obs[r].providerResult.attempts = result[r].details.attempts

\* a send to the agent without fallback vendor has failed after three calls
\* to its primary vendor, the last one a timeout
C25_Witness ==
  \E r \in Reqs :
    /\ pc[r] = "done" /\ Len(obs[r].calls) = maxRetries + 1
    /\ FallbackOf(r) = NoProvider /\ PrimaryFailed(r)
    /\ result[r].details.attempts[maxRetries + 1].httpStatus = 504

\* C26: under a policy with maxRetries = 0 every vendor is called at most
\* once, with retry index 0, and the send never sleeps for a backoff; when
\* the call to the primary vendor fails, with whatever status, and the agent
\* has a fallback vendor, exactly one call to the fallback vendor follows.
C26_OneAttemptPolicy ==
  config.maxRetries = 0 =>
    \A r \in Reqs :
      /\ obs[r].sleeps = <<>>
      /\ \A i \in DOMAIN obs[r].calls : obs[r].calls[i].retries = 0
      /\ \A i, j \in DOMAIN obs[r].calls :
           obs[r].calls[i].provider = obs[r].calls[j].provider => i = j
      /\ (pc[r] = "done" /\ obs[r].calls # <<>> /\ ~obs[r].calls[1].ok) =>
           IF FallbackOf(r) = NoProvider
           THEN Len(obs[r].calls) = 1
           ELSE /\ Len(obs[r].calls) = 2
                /\ obs[r].calls[2].provider = FallbackOf(r)
                /\ obs[r].providerResult.fallbackUsed

\* under the one-attempt policy the primary vendor failed with a retryable
\* status and the fallback vendor answered the one call made to it
C26_Witness ==
  \E r \in Reqs :
    /\ config.maxRetries = 0
    /\ Completed(r)
    /\ Len(obs[r].calls) = 2
    /\ result[r].body.metadata.attempts[1].httpStatus = 500
    /\ result[r].body.metadata.fallbackUsed

\* the send was stopped by an error that is none of its own
Stopped(r) == pc[r] = "done" /\ result[r].kind = "error" /\ result[r].code = "INTERNAL_ERROR"

C28_StoreFailureAborts ==
  /\ [](\A r \in Reqs :
          /\ obs[r].storeFailed => Stopped(r)
          /\ \A i \in DOMAIN providerCallEvents[r] :
               providerCallEvents[r][i].status = "failed" => ~obs[r].calls[i].ok)
  /\ [][\A r \in Reqs :
          /\ (~obs[r].storeFailed /\ obs'[r].storeFailed) => UNCHANGED store
          /\ obs[r].storeFailed => (obs'[r].calls = obs[r].calls /\ UNCHANGED store)]_vars

\* min(10 s, initialBackoffMs * 2^i), the capped backoff of the spec, in ms
CappedBackoff(initialBackoffMs, i) ==
  IF initialBackoffMs * Pow2(i) < 10000 THEN initialBackoffMs * Pow2(i) ELSE 10000

\* w lies between 0.9 and 1.1 times b
WithinJitter(w, b) == 9 * b <= 10 * w /\ 10 * w <= 11 * b

C30_BackoffCapped ==
  (call.fn = "calculateBackoff" /\ ~(call.retryAfterMs # NoRetryAfter /\ call.retryAfterMs > 0)) =>
    10 * call.outcome.body <= 11 * 10000

\* C31: when the failed attempt carries retryAfterMs > 0 the wait before
\* the next attempt is retryAfterMs, without jitter and whatever the retry
\* index; when retryAfterMs is absent or 0 the wait is the exponential
\* backoff initialBackoffMs * 2^i with its jitter.  In a send the
\* retryAfterMs handed to calculateBackoff is that of the failure just
\* recorded: the one of a rate-limited vendorB call, none otherwise.
C31_RetryAfterHonoured ==
  /\ [](call.fn = "calculateBackoff" =>
          IF call.retryAfterMs # NoRetryAfter /\ call.retryAfterMs > 0
          THEN call.outcome = Returned(call.retryAfterMs)
          ELSE WithinJitter(call.outcome.body, call.initialBackoffMs * Pow2(call.attempt)))
  /\ [](\A r \in Reqs : \A n \in DOMAIN obs[r].sleeps :
          LET sl == obs[r].sleeps[n]
              waits == BackoffChoices(sl.attempt, sl.initialBackoffMs, sl.retryAfterMs)
          IN  IF sl.retryAfterMs # NoRetryAfter /\ sl.retryAfterMs > 0
              THEN waits = {sl.retryAfterMs}
              ELSE \A w \in waits : WithinJitter(w, sl.initialBackoffMs * Pow2(sl.attempt)))
  /\ [][\A r \in Reqs :
          Len(obs'[r].sleeps) > Len(obs[r].sleeps) =>
            LET sl == obs'[r].sleeps[Len(obs'[r].sleeps)]
                row == providerCallEvents'[r][Len(providerCallEvents'[r])]
            IN  IF row.provider = "vendorB" /\ row.errorCode # "TIMEOUT"
                THEN sl.retryAfterMs \in RetryAfterChoices
                ELSE sl.retryAfterMs = NoRetryAfter]_vars

\* calculateBackoff was called with retry index 5 and retryAfterMs = 1500
\* and returned 1500
C31_Witness ==
  /\ call.fn = "calculateBackoff"
  /\ call.attempt = 5 /\ call.retryAfterMs = 1500
  /\ call.outcome = Returned(1500)

\* the vendor the next call of send r is issued to and its retry index, if
\* a call is issued
NextCall(r) ==
  IF pc[r] = "providerCall" THEN <<CurrentProvider(r), local[r].attempt>> ELSE <<NoProvider, 0>>

\* C32: a vendor call that does not answer within the timeout ends its
\* attempt as a failed attempt with status 504 and code TIMEOUT; it is
\* followed by the next attempt against the same vendor while attempts
\* remain, and ends the loop against that vendor otherwise.  When the
\* abandoned call settles later nothing changes: no attempt is recorded, no
\* row is written, and the send neither moves nor takes the late response.
C32_TimeoutIsRetryableFailure ==
  /\ [](\A r \in Reqs :
          /\ \A i \in DOMAIN providerCallEvents[r] :
               LET e == providerCallEvents[r][i]
               IN  e.errorCode = "TIMEOUT" =>
                     /\ e.status = "failed" /\ e.httpStatus = 504
                     /\ ~obs[r].calls[i].ok
          /\ obs[r].abandoned + obs[r].lateResponses
               = Cardinality({i \in DOMAIN obs[r].calls :
                                i <= Len(providerCallEvents[r]) + 1 /\
                                IF i <= Len(providerCallEvents[r])
                                THEN providerCallEvents[r][i].errorCode = "TIMEOUT"
                                ELSE local[r].outcome # Null /\ ~local[r].outcome.ok
                                     /\ local[r].outcome.errorCode = "TIMEOUT"})
          /\ Completed(r) => result[r].body.message.content # "late")
  /\ [][\A r \in Reqs :
          (FailedRowStored(r)
             /\ providerCallEvents'[r][Len(providerCallEvents'[r])].errorCode = "TIMEOUT") =>
            LET e == providerCallEvents'[r][Len(providerCallEvents'[r])]
            IN  IF e.retries < maxRetries
                THEN NextCall(r)' = <<e.provider, e.retries + 1>>
                ELSE NextCall(r)'[1] # e.provider]_vars
  /\ [][\A r \in Reqs :
          obs'[r].lateResponses > obs[r].lateResponses =>
            UNCHANGED <<pc, input, local, result, store>>]_vars

\* a send has been answered by the second call to its primary vendor after
\* the first call timed out, and the abandoned first call has settled since
C32_Witness ==
  \E r \in Reqs :
    /\ Completed(r)
    /\ Len(providerCallEvents[r]) = 2
    /\ providerCallEvents[r][1].errorCode = "TIMEOUT"
    /\ obs[r].lateResponses = 1

\* the idempotency records that have been completed with a response
CompletedRecords == {rec \in idempotencyRecords : rec.responseJson # Null}

\* C33: once the client of a send has hung up, the send issues no further
\* vendor call and does not sleep for another backoff, writes no assistant
\* message and no usage event and does not complete its idempotency record;
\* the rows written before the hang-up remain.
C33_CancellationStopsSend ==
  [][\A r \in Reqs :
       obs[r].cancelled =>
         /\ obs'[r].calls = obs[r].calls
         /\ obs'[r].sleeps = obs[r].sleeps
         /\ MessagesOf(r, "assistant")' = MessagesOf(r, "assistant")
         /\ UsageOf(r)' = UsageOf(r)
         /\ CompletedRecords' = CompletedRecords
         /\ \A i \in DOMAIN messages : messages'[i] = messages[i]
         /\ \A i \in DOMAIN providerCallEvents[r] :
              providerCallEvents'[r][i] = providerCallEvents[r][i]]_vars

\* sends p and q carry different idempotency keys for one session of one
\* tenant, and q arrived while p was running
ConcurrentOnSession(p, q) ==
  /\ p # q /\ pc[p] # "idle" /\ pc[q] # "idle"
  /\ input[p].tenantId = input[q].tenantId
  /\ input[p].sessionId = input[q].sessionId
  /\ input[p].idempotencyKey # input[q].idempotencyKey
  /\ p \in obs[q].overlapped

\* the vendor request of send r contains the user message of r
RequestHasOwnMessage(r) ==
  local[r].request # Null =>
    \E i \in DOMAIN local[r].request.messages :
      local[r].request.messages[i] = [role |-> "user", content |-> input[r].content]

\* C34: two sends with different idempotency keys that overlap on one
\* session do not block or fail each other.  Each of them can take its next
\* step whatever the other one does; none of them meets the record of the
\* other; the vendor request of each contains its own user message; a send
\* none of whose vendor calls failed completes; and when both have
\* completed they have added exactly two user messages, two assistant
\* messages and two usage events.
C34_ConcurrentKeysOnSession ==
  \A p, q \in Reqs :
    ConcurrentOnSession(p, q) =>
      /\ \A r \in {p, q} :
           /\ InFlight(r) => ENABLED Step(r)
           /\ ~obs[r].sawPending /\ ~obs[r].sawCompleted
           /\ RequestHasOwnMessage(r)
           /\ (pc[r] = "done" /\ r \notin failing) => Completed(r)
      /\ (Completed(p) /\ Completed(q)) =>
           /\ Cardinality(MessagesOf(p, "user") \cup MessagesOf(q, "user")) = 2
           /\ Cardinality(MessagesOf(p, "assistant") \cup MessagesOf(q, "assistant")) = 2
           /\ Cardinality(UsageOf(p) \cup UsageOf(q)) = 2
           /\ Cardinality({i \in DOMAIN messages :
                             messages[i].sessionId = input[p].sessionId}) = 4
           /\ Cardinality(DOMAIN usageEvents) = 2

\* two overlapping sends with keys k1 and k2 on session s1 have both completed
C34_Witness ==
  /\ ConcurrentOnSession(1, 2)
  /\ Completed(1) /\ Completed(2)
  /\ {input[1].idempotencyKey, input[2].idempotencyKey} = {"k1", "k2"}

\* C35: every stored agent has no fallback vendor or a fallback vendor that
\* differs from its primary vendor, after any sequence of createAgent and
\* updateAgent calls, an update of only one of the two fields included.
C35_FallbackDiffersFromPrimary ==
  \A a \in agents :
    a.fallbackProvider = NoProvider \/ a.fallbackProvider # a.primaryProvider

\* C36: every stored session references an agent of the tenant of the
\* session; a createSession that names an agent id that does not exist, or
\* an agent of another tenant, ends with AGENT_NOT_FOUND and stores no
\* session.
C36_SessionReferencesOwnAgent ==
  /\ [](\A sid \in DOMAIN sessions :
          \E a \in agents : a.id = sessions[sid].agentId
                             /\ a.tenantId = sessions[sid].tenantId)
  /\ [][(/\ admin.createSession = Null
          /\ admin'.calls > admin.calls
          /\ call'.fn = "createSession"
          /\ admin'.createSession = Null)
         => /\ ~\E a \in agents : a.id = call'.agentId /\ a.tenantId = call'.tenantId
            /\ call'.outcome = Thrown("AGENT_NOT_FOUND", [agentId |-> call'.agentId])
            /\ sessions' = sessions]_vars
  /\ [][(admin'.createSession # Null /\ admin.createSession = Null)
         => \E a \in agents : a.id = admin'.createSession.agentId
                               /\ a.tenantId = admin'.createSession.tenantId]_vars

\* tenant t1 asked for a session with agent a2 of tenant t2, which exists,
\* and was turned away; no session has been added
C36_Witness ==
  /\ call.fn = "createSession"
  /\ call.tenantId = "t1" /\ call.agentId = "a2"
  /\ \E a \in agents : a.id = "a2" /\ a.tenantId = "t2"
  /\ call.outcome = Thrown("AGENT_NOT_FOUND", [agentId |-> "a2"])
  /\ DOMAIN sessions = DOMAIN SessionsInit

\* sends p and q of one tenant carry the same idempotency key for two
\* different sessions, and both have ended without a failed vendor call
SameKeyTwoSessions(p, q) ==
  /\ SameKey(p, q)
  /\ input[p].sessionId # input[q].sessionId
  /\ pc[p] = "done" /\ pc[q] = "done"
  /\ p \notin failing /\ q \notin failing

\* C37: when one tenant sends with the same idempotency key against two
\* different sessions, each send is processed as a send of its own session:
\* it returns a response that is not a replay and whose message belongs to
\* its session, and its session holds its user and its assistant message.
C37_SameKeyOnTwoSessions ==
  \A p, q \in Reqs :
    SameKeyTwoSessions(p, q) =>
      \A r \in {p, q} :
        /\ result[r].kind = "ok"
        /\ ~result[r].body.metadata.idempotency.replayed
        /\ result[r].body.message.sessionId = input[r].sessionId
        /\ \E i \in MessagesOf(r, "user") : messages[i].sessionId = input[r].sessionId
        /\ \E i \in MessagesOf(r, "assistant") : messages[i].sessionId = input[r].sessionId

\* the idempotency record stored under the key of send r
RecordOf(r) == lookup(input[r].tenantId, "send_message", input[r].idempotencyKey)

\* C39: the request fingerprint stored in an idempotency record depends on
\* the tenant, the session and the content only: two sends with the same
\* tenant, session and content that have each stored a record have stored
\* equal fingerprints, whenever they were made.
C39_FingerprintIgnoresTime ==
  \A p, q \in Reqs :
    (/\ obs[p].inserted /\ obs[q].inserted
     /\ input[p].tenantId = input[q].tenantId
     /\ input[p].sessionId = input[q].sessionId
     /\ input[p].content = input[q].content)
    => RecordOf(p).requestHash = RecordOf(q).requestHash

\* every row of table `old` is a row of table `new`, at its place and unchanged
RowsKept(old, new) ==
  /\ Len(new) >= Len(old)
  /\ \A i \in DOMAIN old : new[i] = old[i]

\* C38: no step of a send deletes or rewrites a message, an attempt row or
\* a usage event: the tables only grow and their rows keep their content.
\* No session is added or removed, and the only field of a session a send
\* changes is lastActivityAt.
C38_SendsOnlyAppend ==
  [][/\ RowsKept(messages, messages')
     /\ RowsKept(usageEvents, usageEvents')
     /\ \A r \in Reqs : RowsKept(providerCallEvents[r], providerCallEvents'[r])
     /\ DOMAIN sessions' = DOMAIN sessions
     /\ \A sid \in DOMAIN sessions :
          sessions'[sid] = [sessions[sid] EXCEPT !.lastActivityAt = sessions'[sid].lastActivityAt]
    ]_vars

\* a second send has completed on a session that already held the messages,
\* the attempt row and the usage event of a first one
C38_Witness ==
  \E p, q \in Reqs :
    /\ p # q /\ Completed(p) /\ Completed(q)
    /\ input[p].sessionId = input[q].sessionId
    /\ q \notin obs[p].overlapped /\ p \notin obs[q].overlapped
    /\ Len(messages) >= 4 /\ Len(usageEvents) >= 2
    /\ sessions[input[p].sessionId].lastActivityAt > 1

====
